---- MODULE Spec2Model ----
(***************************************************************************)
(* Model of the real-time text-to-speech streaming pipeline of JARVIS:     *)
(*   - the streaming audio session of src/server.py (/api/voice,           *)
(*     /api/voice/text, /api/voice/stream): header, warm-up, sentence      *)
(*     producer task, bounded sentence queue, consumer loop, cleanup;      *)
(*   - the synthesis router of src/services/tts_hybrid.py and the Piper    *)
(*     subprocess backend of src/services/tts.py;                          *)
(*   - the sentence segmenter of src/services/llm.py.                      *)
(* Text is a sequence of one-character strings.                            *)
(***************************************************************************)
EXTENDS Integers, Sequences, FiniteSets, TLC

\* ------------------------------------------------------------------------
\* Bounds of the model (not program constants)
\* ------------------------------------------------------------------------
MaxSentences == 6
MaxChunks == 2
MaxDeltas == 3
MaxTextLen == 5
MaxSharedLen == 2
MaxMonoBytes == 6
\* chunk_size of the streaming upmix (4096 in the source), scaled down
chunk_size == 4
PipeCapacity == 2
MaxFeedChunk == 2
MaxMp3Chunks == 3
MaxSanLen == 6
MaxSanShort == 3
\* seconds between two readings of the clock, and the readings followed
ClockStep == 3600
MaxTicks == 26
\* timers set during one run
MaxTimers == 2
\* turns in the history before the request, and sentences of one LLM stream
MaxHistory == 2
MaxLlmSentences == 2
\* stereo frames of a whole utterance given to _create_wav_header
MaxFrames == 60

\* ------------------------------------------------------------------------
\* Program constants
\* ------------------------------------------------------------------------
\* asyncio.Queue(maxsize=5)
QueueMaxsize == 5

\* stop_token = object(): a value distinct from every sentence
stop_token == 0

\* the two calls of generate_stream that may run on the shared instance
LlmStreams == {1, 2}

\* SessionManager(timeout_seconds=1800)
timeout == 1800

\* timedelta.seconds is the seconds part of a timedelta, 0 <= seconds < 86400
SecondsPerDay == 86400

\* the session ids the requests carry
SessionIds == {"s1", "s2"}

\* generate_response: max_attempts = 2
max_attempts == 2

\* the format of the streamed audio: sample_rate, num_channels, bits_per_sample
sample_rate == 22050
num_channels == 2
bits_per_sample == 16

\* characters the generated deltas are drawn from
TextAlphabet == {"a", ".", " ", "#"}

\* languages of the sessions: English and one Indian language ("te" takes
\* the branches of "hi" in every function modelled here)
Languages == {"en", "hi"}
\* HybridTTSService.indian_languages
indian_languages == {"hi", "te"}

VARIABLES
    detected_lang,     \* language handed to synthesize_stream_async
    use_edge_tts,      \* HybridTTSService.use_edge_tts (EDGE_TTS_AVAILABLE)
    gtts_available,    \* GTTS_AVAILABLE
    genPc,             \* position of audio_stream_generator
    prodPc,            \* position of the sentence_producer task
    cancelState,       \* producer_task.cancel(): "none" | "requested" | "delivered"
    disconnected,      \* the transport closed the generator
    sentence_queue,    \* asyncio.Queue contents, head first
    pulled,            \* sentences pulled from generate_response so far
    cur,               \* sentence held by the consumer loop (0: none)
    nchunks,           \* chunks yielded for cur
    running_procs,     \* subprocesses spawned and not yet waited on
    feed_tasks,        \* feed_mp3 tasks created and not yet finished
    out_headers,       \* number of WAV headers the generator has yielded
    out_first,         \* kind of the first item it yielded ("none": nothing yet)
    out_recent,        \* the last two audio chunks it yielded, oldest first
    escaped,           \* an exception of a backend reached the generator
    source_raised,     \* generate_response raised in the producer task
    propagated,        \* the producer's exception left the generator
    enq                \* every item ever put on the queue, in order

pipeVars == <<detected_lang, use_edge_tts, gtts_available, genPc,
              prodPc, cancelState, disconnected, sentence_queue, pulled, cur,
              nchunks, running_procs, feed_tasks, out_headers, out_first,
              out_recent, escaped, source_raised, propagated, enq>>

\* what the client has received
outVars == <<out_headers, out_first, out_recent>>

\* what has gone wrong in the session
errVars == <<escaped, source_raised, propagated>>

\* State of the text source: StreamingLLM (one global instance, llm) and the
\* generate_stream calls running on it
VARIABLES
    sentence_buffer,   \* StreamingLLM.sentence_buffer: one attribute of the shared instance
    input,             \* per call: the content deltas the LLM response carries
    ingested,          \* per call: deltas read so far
    emitted,           \* per call: sentences yielded so far
    llmPc              \* per call: "off" | "idle" | "streaming" | "flushed" | "eof" | "failed"

segVars == <<sentence_buffer, input, ingested, emitted, llmPc>>

\* State of one call of synthesize_stream_async on the English branch
VARIABLE
    upmix              \* a record with the fields:
    \* mono_stream     the bytes piper writes for the sentence
    \* mono_read       how many of them the reads have returned so far
    \* mono_buffer     mono_buffer: bytes read and not yet converted
    \* stereo_out      the chunks yielded so far, in order
    \* upPc            "off" | "idle" | "reading" | "done" | "whole" | "error"

\* State of one subprocess (piper or ffmpeg) and of the coroutines around it
VARIABLE
    subprocess         \* a record with the fields:
    \* proc_kind       "off" | "piper" | "ffmpeg"
    \* feedPc          writer: "feed" | "drain" | "close" | "done"
    \* readPc          reader: "read" | "wait" | "done"
    \* to_feed         input bytes not yet passed to stdin.write
    \* unsent          bytes in the write buffer of the stdin transport
    \* stdin_pipe      bytes in the pipe to the child's stdin
    \* stdin_closing   stdin.close() was called
    \* child_pending   output the child has produced and not yet written
    \* child_exited    the child has exited
    \* stdout_pipe     bytes in the pipe from the child's stdout

\* State of one call of _edge_tts_synthesize_stream (one sentence)
VARIABLE
    edge_stream        \* a record with the fields:
    \* edgePc         "off" | "spawn" | "read" | "await_feed" | "wait" | "fallback" | "convert" | "done"
    \* ffmpeg_state   "none" | "running" | "ok" (returncode 0) | "failed" (non-zero)
    \* feed_state     feed_mp3: "none" | "feeding" | "closed" | "error"
    \* mp3_left       MP3 chunks Edge TTS has still to deliver
    \* pcm_ready      PCM chunks in ffmpeg's stdout, not yet read
    \* edge_yielded   PCM chunks yielded by the streaming path
    \* fb_yielded     PCM chunks yielded by _edge_tts_fallback
    \* edge_retried   the except clause handed the sentence to the fallback
    \* edge_blank     the text of the sentence is empty or whitespace only

\* State of the applications of clean_text_for_tts to one text
VARIABLE
    san                \* a record with the fields:
    \* text    the text given to clean_text_for_tts
    \* once    clean_text_for_tts(text)
    \* twice   clean_text_for_tts(once)
    \* pc      "off" | "idle" | "once" | "twice"

\* State of the SessionManager
VARIABLE
    manager            \* a record with the fields:
    \* now        datetime.now(), in seconds
    \* sessions   SessionManager.sessions: session id -> last_activity
    \* session    the session the current request obtained
    \* cleaned    cleanup_expired ran and the clock has not moved since

\* State of the timer registry and of the two kinds of thread that use it
VARIABLE
    timers             \* a record with the fields:
    \* timer_counter   _timer_counter
    \* active_timers   keys of _active_timers, in insertion order
    \* timer_state     threading.Timer of each id: "unset" | "waiting" | "running" | "cancelled" | "finished"
    \* srvPc           position of the server thread inside a tool call
    \* timer_id        timer_id of the call in progress (0: none)
    \* iter_size       size of the dict when the iteration of list_timers began
    \* iter_pos        entries list_timers has visited
    \* tool_result     outcome of the last finished call

\* State of the LLM retry loop of generate_response
VARIABLE
    response           \* a record with the fields:
    \* respPc                position of generate_response
    \* attempt               attempt
    \* conversation_history  session.conversation_history, oldest turn first
    \* full_response         sentences accumulated in full_response
    \* response_yielded      what generate_response has yielded, in order
    \* llm_calls             calls of llm.generate_stream made by the loop
    \* stream_left           sentences the running stream has still to yield

\* State of the emission of one WAV header and of its reading by a client
VARIABLE
    wav                \* a record with the fields:
    \* hdrPc       "off" | "idle" | "yielded" | "parsed"
    \* header_by   the endpoint or the function that built the header
    \* header      the bytes of the header
    \* declared    the fields a reader finds in the header

vars == <<pipeVars, segVars, upmix, subprocess, edge_stream, san, manager, timers, response, wav>>

\* ------------------------------------------------------------------------
\* Helpers
\* ------------------------------------------------------------------------
Last(s) == s[Len(s)]

\* not asyncio.Queue.full(): put() stays suspended while this is false
CanPutUnbounded(q) == TRUE
CanPut(q) == Len(q) < QueueMaxsize

\* asyncio.Queue.put_nowait: append at the tail
QueuePut(q, x) == Append(q, x)

\* asyncio.Queue.get: the item at the head and the queue it leaves
QueueGetNewest(q) == [item |-> Last(q), rest |-> SubSeq(q, 1, Len(q) - 1)]
QueueGet(q) == [item |-> Head(q), rest |-> Tail(q)]

\* "if sentence is stop_token"
IsStopNever(item) == FALSE
IsStop(item) == item = stop_token

\* the raw_pcm argument the streaming endpoints pass to synthesize_stream_async
RawPcmArgOff == FALSE
RawPcmArg == TRUE

\* Backend branch taken by synthesize_stream_async
BackendPath(lang, raw_pcm) ==
    IF lang \in indian_languages
    THEN IF use_edge_tts THEN "edge"
         ELSE IF gtts_available THEN "gtts"
         ELSE "piper_mono"
    ELSE IF raw_pcm THEN "piper_stereo" ELSE "piper_wav"

\* What synthesize_stream_async yields when its backend delivers chunk k of
\* sentence s: Edge TTS and the raw_pcm Piper branch yield stereo PCM, gTTS
\* yields the MP3 bytes, the final English fallback yields Piper's mono PCM,
\* and the branch without raw_pcm only collects.
ChunkItems(path, s, k) ==
    IF path = "piper_wav" THEN << >>
    ELSE IF path = "gtts"
         THEN << [kind |-> "MP3", sent |-> s, idx |-> k, by |-> "gtts"] >>
    ELSE IF path = "piper_mono"
         THEN << [kind |-> "MONO", sent |-> s, idx |-> k, by |-> "piper"] >>
    ELSE << [kind |-> "PCM", sent |-> s, idx |-> k,
             by |-> IF path = "edge" THEN "edge" ELSE "piper"] >>

\* What it yields once the backend is exhausted: the branch without raw_pcm
\* yields a complete WAV file (wav_header, then stereo_data)
FinishItems(path, s, k) ==
    IF path = "piper_wav"
    THEN << [kind |-> "HDR", sent |-> s, idx |-> k + 1, by |-> "piper"],
            [kind |-> "PCM", sent |-> s, idx |-> k + 1, by |-> "piper"] >>
    ELSE << >>

\* The branches whose body runs inside "try: ... except Exception": Piper
\* (PiperTTS.synthesize_stream), Edge TTS (_edge_tts_synthesize_stream) and
\* gTTS (_gtts_synthesize)
CatchesOnlyEdge(path) == path = "edge"
Catches(path) == path \in {"edge", "gtts", "piper_mono", "piper_stereo", "piper_wav"}

\* What the except clause of the branch does with the sentence: Edge TTS
\* hands it to _edge_tts_fallback (Edge TTS again, not streamed), gTTS to
\* _piper_synthesize_sync (English Piper), Piper only logs
FallbackOf(path) ==
    IF path = "edge" THEN "edge_fallback"
    ELSE IF path = "gtts" THEN "piper_sync"
    ELSE "none"

\* What the fallback yields as chunk k of sentence s: _edge_tts_fallback
\* yields stereo PCM (pydub or ffmpeg -ac 2), _piper_synthesize_sync the mono
\* PCM of piper_tts.synthesize_stream
FallbackItems(path, s, k) ==
    IF FallbackOf(path) = "edge_fallback"
    THEN << [kind |-> "PCM", sent |-> s, idx |-> k, by |-> "edge_fallback"] >>
    ELSE << [kind |-> "MONO", sent |-> s, idx |-> k, by |-> "piper_sync"] >>

SpawnsProcess(path) == path \in {"edge", "piper_mono", "piper_stereo", "piper_wav"}
HasFeedTask(path) == path = "edge"

Terminal == {"done", "cancelled"}

\* ------------------------------------------------------------------------
\* Text: sequences of one-character strings
\* ------------------------------------------------------------------------
\* \s of the regular expressions and str.strip()
Whitespace == {" ", "\n", "\t"}
\* ([.!?]) of sentence_endings
SentenceEndChars == {".", "!", "?"}
\* the ASCII members of [#\->] and the bullet of clean_text_for_tts
SpecialMarkdownChars == {"#", "-", ">"}

SetMax(S) == CHOOSE x \in S : \A y \in S : y <= x
SetMin(S) == CHOOSE x \in S : \A y \in S : x <= y

RECURSIVE Concat(_)
Concat(ss) == IF ss = << >> THEN << >> ELSE Head(ss) \o Concat(Tail(ss))

\* str.strip()
Strip(t) ==
    LET keep == {i \in 1..Len(t) : t[i] \notin Whitespace} IN
    IF keep = {} THEN << >> ELSE SubSeq(t, SetMin(keep), SetMax(keep))

\* a replacement that spells the header symbol out
ReplaceSpecialSpelled(t) ==
    Concat([i \in 1..Len(t) |->
               IF t[i] = "#" THEN <<"h", "a", "s", "h">>
               ELSE IF t[i] \in SpecialMarkdownChars THEN <<" ">> ELSE <<t[i]>>])

\* re.sub of the special markdown characters by ' '
ReplaceSpecial(t) == [i \in 1..Len(t) |-> IF t[i] \in SpecialMarkdownChars THEN " " ELSE t[i]]

\* re.sub(r'\s+', ' ', text)
CollapseWhitespace(t) ==
    LET keep(i) == t[i] \notin Whitespace \/ i = 1 \/ t[i-1] \notin Whitespace
        F[i \in 0..Len(t)] ==
            IF i = 0 THEN << >>
            ELSE IF keep(i)
                 THEN Append(F[i-1], IF t[i] \in Whitespace THEN " " ELSE t[i])
                 ELSE F[i-1]
    IN F[Len(t)]

\* the backquote character (U+0060), written "^" in this module
Backquote == "^"

\* t has the string d at position i
StartsWith(t, i, d) ==
    /\ i + Len(d) - 1 <= Len(t)
    /\ SubSeq(t, i, i + Len(d) - 1) = d

\* position of the first character of t from position i on that is in the
\* set stop (0: none): where a greedy [^...]+ ends
FirstOf(t, i, stop) ==
    LET found == {j \in i..Len(t) : t[j] \in stop} IN
    IF found = {} THEN 0 ELSE SetMin(found)

\* Match of open [^c]{least,} close at position i, c the first character of
\* close: the position of the last character matched, 0 if there is no
\* match.  The class excludes c, so the greedy run ends at the first c.
MatchDelimited(t, i, open, close, least) ==
    IF ~StartsWith(t, i, open) THEN 0
    ELSE LET j == FirstOf(t, i + Len(open), {close[1]}) IN
         IF j = 0 \/ j - (i + Len(open)) < least \/ ~StartsWith(t, j, close) THEN 0
         ELSE j + Len(close) - 1

\* re.sub(open + '([^c]+)' + close, r'\1', t) from position i on: matches are
\* taken left to right and do not overlap
RECURSIVE Unwrap(_, _, _, _)
Unwrap(t, i, open, close) ==
    IF i > Len(t) THEN << >>
    ELSE LET e == MatchDelimited(t, i, open, close, 1) IN
         IF e = 0 THEN << t[i] >> \o Unwrap(t, i + 1, open, close)
         ELSE SubSeq(t, i + Len(open), e - Len(close)) \o Unwrap(t, e + 1, open, close)

\* the code block rule, three backquotes, [^backquote]*, three backquotes,
\* replaced by ' ', from position i on
RECURSIVE RemoveCodeBlocks(_, _)
RemoveCodeBlocks(t, i) ==
    IF i > Len(t) THEN << >>
    ELSE LET e == MatchDelimited(t, i, <<Backquote, Backquote, Backquote>>, <<Backquote, Backquote, Backquote>>, 0) IN
         IF e = 0 THEN << t[i] >> \o RemoveCodeBlocks(t, i + 1)
         ELSE << " " >> \o RemoveCodeBlocks(t, e + 1)

\* Match of \[([^\]]+)\]\([^)]+\) at position i: the positions of the ']'
\* and of the last character matched, << >> if there is no match
MatchLink(t, i) ==
    LET e == MatchDelimited(t, i, <<"[">>, <<"]", "(">>, 1) IN
    IF e = 0 THEN << >>
    ELSE LET j == FirstOf(t, e + 1, {")"}) IN
         IF j = 0 \/ j = e + 1 THEN << >> ELSE << e - 1, j >>

\* re.sub(r'\[([^\]]+)\]\([^)]+\)', r'\1', t) from position i on
RECURSIVE UnwrapLinks(_, _)
UnwrapLinks(t, i) ==
    IF i > Len(t) THEN << >>
    ELSE LET m == MatchLink(t, i) IN
         IF m = << >> THEN << t[i] >> \o UnwrapLinks(t, i + 1)
         ELSE SubSeq(t, i + 1, m[1] - 1) \o UnwrapLinks(t, m[2] + 1)

\* the markdown rules of clean_text_for_tts, in the order of the source
RemoveMarkdown(t) ==
    LET bold == Unwrap(t, 1, <<"*", "*">>, <<"*", "*">>)
        italic == Unwrap(bold, 1, <<"*">>, <<"*">>)
        bold_u == Unwrap(italic, 1, <<"_", "_">>, <<"_", "_">>)
        italic_u == Unwrap(bold_u, 1, <<"_">>, <<"_">>)
        blocks == RemoveCodeBlocks(italic_u, 1)
        inline == Unwrap(blocks, 1, <<Backquote>>, <<Backquote>>)
    IN UnwrapLinks(inline, 1)

clean_text_for_tts(t) == Strip(CollapseWhitespace(ReplaceSpecial(RemoveMarkdown(t))))

\* sentence_endings = re.compile(r'([.!?])\s+'): start positions of the matches
SentenceEndingsNoSpace(t) == {i \in 1..Len(t) : t[i] \in SentenceEndChars}
SentenceEndings(t) ==
    {i \in 1..Len(t) - 1 : t[i] \in SentenceEndChars /\ t[i+1] \in Whitespace}

\* match.end(): index of the first character after the whitespace run of the
\* match that starts at i
MatchEnd(t, i) ==
    LET after == {j \in i+1..Len(t) : t[j] \notin Whitespace} IN
    IF after = {} THEN Len(t) + 1 ELSE SetMin(after)

\* StreamingLLM._extract_sentences: the returned list and the buffer it leaves
ExtractKeepBuffer(text) ==
    LET matches == SentenceEndings(text) IN
    IF matches = {} THEN [sentences |-> << >>, buffer |-> text]
    ELSE LET boundary_pos == MatchEnd(text, SetMax(matches))
             complete_text == Strip(SubSeq(text, 1, boundary_pos - 1))
         IN [sentences |-> IF complete_text # << >> THEN <<complete_text>> ELSE << >>,
             buffer |-> text]
_extract_sentences(text) ==
    LET matches == SentenceEndings(text) IN
    IF matches = {} THEN [sentences |-> << >>, buffer |-> text]
    ELSE LET boundary_pos == MatchEnd(text, SetMax(matches))
             complete_text == Strip(SubSeq(text, 1, boundary_pos - 1))
         IN [sentences |-> IF complete_text # << >> THEN <<complete_text>> ELSE << >>,
             buffer |-> Strip(SubSeq(text, boundary_pos, Len(text)))]

\* the "if clean_sentence:" filter of generate_stream applied to a list
RECURSIVE CleanNonEmpty(_)
CleanNonEmpty(ss) ==
    IF ss = << >> THEN << >>
    ELSE LET c == clean_text_for_tts(Head(ss)) IN
         (IF c # << >> THEN <<c>> ELSE << >>) \o CleanNonEmpty(Tail(ss))

\* ------------------------------------------------------------------------
\* Initial state: a request has been accepted, the generator not yet started
\* ------------------------------------------------------------------------
\* the deltas of the example of section 8 of the design
ScenarioDeltas ==
    << <<"H", "e", "l", "l", "o">>,
       <<" ", "w", "o", "r", "l", "d", ".">>,
       <<" ", "H", "o", "w", " ", "a", "r", "e">>,
       <<" ", "y", "o", "u", "?">> >>

\* the text of a response
Texts == UNION {[1..n -> TextAlphabet] : n \in 0..MaxTextLen}

\* the ways text t may arrive as at most k non-empty content deltas
RECURSIVE Splits(_, _)
Splits(t, k) ==
    IF t = << >> THEN {<< >>}
    ELSE IF k = 0 THEN {}
    ELSE UNION {{<<SubSeq(t, 1, n)>> \o r : r \in Splits(SubSeq(t, n + 1, Len(t)), k - 1)}
                  : n \in 1..Len(t)}

\* call 1 is to read deltas d, call 2 does not run
OneCall(d) == [s \in LlmStreams |-> IF s = 1 THEN d ELSE << >>]

\* no generate_stream call is running
SegOff ==
    /\ sentence_buffer = << >>
    /\ input = [s \in LlmStreams |-> << >>]
    /\ ingested = [s \in LlmStreams |-> 0]
    /\ emitted = [s \in LlmStreams |-> << >>]
    /\ llmPc = [s \in LlmStreams |-> "off"]

\* the call before its first statement, for a text of n MP3 chunks
EdgeCall(pc, blank, n) ==
    [edgePc |-> pc,
     ffmpeg_state |-> "none",
     feed_state |-> "none",
     mp3_left |-> n,
     pcm_ready |-> 0,
     edge_yielded |-> 0,
     fb_yielded |-> 0,
     edge_retried |-> FALSE,
     edge_blank |-> blank]

\* no Edge TTS sentence is followed
EdgeOff == edge_stream = EdgeCall("off", FALSE, 0)

\* the request holds no session
NoSession == [sid |-> "none", idle |-> 0, from_get |-> FALSE]

\* no session exists
SessOff ==
    manager = [now |-> 0, sessions |-> << >>, session |-> NoSession,
               cleaned |-> FALSE]

\* no timer was ever set
TimerOff ==
    timers = [timer_counter |-> 0,
              active_timers |-> << >>,
              timer_state |-> [t \in 1..MaxTimers |-> "unset"],
              srvPc |-> "idle",
              timer_id |-> 0,
              iter_size |-> 0,
              iter_pos |-> 0,
              tool_result |-> "none"]

\* the request before its first LLM call, with history h
Request(pc, h) ==
    [respPc |-> pc,
     attempt |-> 0,
     conversation_history |-> h,
     full_response |-> 0,
     response_yielded |-> << >>,
     llm_calls |-> 0,
     stream_left |-> 0]

\* no request is being answered
RespOff == response = Request("off", << >>)

\* a 32-bit unsigned value, held as two 16-bit halves
U32(h, l) == [hi |-> h, lo |-> l]

\* the fields of a header nobody has read
NoFields ==
    [riff_size |-> U32(0, 0), audio_format |-> 0, num_channels |-> 0,
     sample_rate |-> U32(0, 0), byte_rate |-> U32(0, 0), block_align |-> 0,
     bits_per_sample |-> 0, data_size |-> U32(0, 0), tags |-> FALSE]

\* no header has been built
NoHeader(pc) ==
    [hdrPc |-> pc, header_by |-> "none", header |-> << >>, declared |-> NoFields]

\* no header is followed
HdrOff == wav = NoHeader("off")

\* the text x before it is sanitized
Unsanitized(pc, x) == [text |-> x, once |-> << >>, twice |-> << >>, pc |-> pc]

\* no text is being sanitized
SanOff == san = Unsanitized("off", << >>)

\* no subprocess is followed
ProcOff ==
    subprocess = [proc_kind |-> "off", feedPc |-> "done", readPc |-> "done",
                  to_feed |-> 0, unsent |-> 0, stdin_pipe |-> 0,
                  stdin_closing |-> FALSE, child_pending |-> 0,
                  child_exited |-> TRUE, stdout_pipe |-> 0]

\* no sentence is being upmixed
UpOff ==
    upmix = [mono_stream |-> << >>, mono_read |-> 0, mono_buffer |-> << >>,
             stereo_out |-> << >>, upPc |-> "off"]

\* no streaming request is being served
PipeOff ==
    /\ detected_lang = "en"
    /\ use_edge_tts = FALSE
    /\ gtts_available = FALSE
    /\ genPc = "off"
    /\ prodPc = "none"
    /\ cancelState = "none"
    /\ disconnected = FALSE
    /\ sentence_queue = << >>
    /\ pulled = 0
    /\ cur = 0
    /\ nchunks = 0
    /\ running_procs = 0
    /\ feed_tasks = 0
    /\ out_headers = 0
    /\ out_first = "none"
    /\ out_recent = << >>
    /\ escaped = FALSE
    /\ source_raised = FALSE
    /\ propagated = FALSE
    /\ enq = << >>

\* The installations a session may run on, one for each way the router can
\* read them: use_edge_tts and GTTS_AVAILABLE are read for an Indian language
\* only, and GTTS_AVAILABLE only when use_edge_tts is off; a flag that is not
\* read is taken as set.
Configs ==
    {c \in [lang : Languages, edge : BOOLEAN, gtts : BOOLEAN] :
        /\ c.lang \notin indian_languages => (c.edge /\ c.gtts)
        /\ c.edge => c.gtts}

Init ==
    /\ HdrOff
    /\ RespOff
    /\ TimerOff
    /\ SessOff
    /\ SanOff
    /\ EdgeOff
    /\ SegOff
    /\ UpOff
    /\ ProcOff
    /\ \E c \in Configs :
          /\ detected_lang = c.lang
          /\ use_edge_tts = c.edge
          /\ gtts_available = c.gtts
    /\ genPc = "start"
    /\ prodPc = "none"
    /\ cancelState = "none"
    /\ disconnected = FALSE
    /\ sentence_queue = << >>
    /\ pulled = 0
    /\ cur = 0
    /\ nchunks = 0
    /\ running_procs = 0
    /\ feed_tasks = 0
    /\ out_headers = 0
    /\ out_first = "none"
    /\ out_recent = << >>
    /\ escaped = FALSE
    /\ source_raised = FALSE
    /\ propagated = FALSE
    /\ enq = << >>

cfgVars == <<detected_lang, use_edge_tts, gtts_available>>

\* an item of the response body that carries audio of a sentence
IsData(item) == item.kind \notin {"HDR", "WARM"}

LastTwo(s) == IF Len(s) <= 2 THEN s ELSE SubSeq(s, Len(s) - 1, Len(s))

\* "yield": the items are handed to the StreamingResponse, in order
Yield(items) ==
    /\ out_headers' = out_headers + Len(SelectSeq(items, LAMBDA x : x.kind = "HDR"))
    /\ out_first' = IF out_first = "none" /\ items # << >>
                    THEN Head(items).kind ELSE out_first
    /\ out_recent' = LastTwo(out_recent \o SelectSeq(items, IsData))

\* ------------------------------------------------------------------------
\* audio_stream_generator (consumer side)
\* ------------------------------------------------------------------------
\* yield header
YieldHeader ==
    /\ genPc = "start"
    /\ genPc' = "header"
    /\ Yield(<< [kind |-> "HDR", sent |-> 0, idx |-> 0, by |-> "generator"] >>)
    /\ UNCHANGED <<wav, response, timers, manager, san, edge_stream, segVars, upmix, subprocess, cfgVars, errVars, prodPc, cancelState, disconnected, sentence_queue,
                   pulled, cur, nchunks, running_procs, feed_tasks, enq>>

\* yield b'\x00' * warmup_bytes
YieldWarmup ==
    /\ genPc = "header"
    /\ genPc' = "warmup"
    /\ Yield(<< [kind |-> "WARM", sent |-> 0, idx |-> 0, by |-> "generator"] >>)
    /\ UNCHANGED <<wav, response, timers, manager, san, edge_stream, segVars, upmix, subprocess, cfgVars, errVars, prodPc, cancelState, disconnected, sentence_queue,
                   pulled, cur, nchunks, running_procs, feed_tasks, enq>>

\* sentence_queue = asyncio.Queue(maxsize=5); producer_task = create_task(...)
StartProducer ==
    /\ genPc = "warmup"
    /\ genPc' = "get"
    /\ prodPc' = "pull"
    /\ UNCHANGED <<wav, response, timers, manager, san, edge_stream, segVars, upmix, subprocess, cfgVars, errVars, cancelState, disconnected, sentence_queue, pulled,
                   cur, nchunks, running_procs, feed_tasks, outVars, enq>>

\* sentence = await sentence_queue.get(); if sentence is stop_token: break
ConsumerGet ==
    /\ genPc = "get"
    /\ sentence_queue # << >>
    /\ LET got == QueueGet(sentence_queue)
           item == got.item
       IN
         /\ sentence_queue' = got.rest
         /\ IF IsStop(item)
            THEN /\ genPc' = "finally"
                 /\ UNCHANGED <<cur, nchunks>>
            ELSE /\ genPc' = "synth_start"
                 /\ cur' = item
                 /\ nchunks' = 0
    /\ UNCHANGED <<wav, response, timers, manager, san, edge_stream, segVars, upmix, subprocess, cfgVars, errVars, prodPc, cancelState, disconnected, pulled,
                   running_procs, feed_tasks, outVars, enq>>

\* synthesize_stream_async(sentence, detected_lang, raw_pcm=True): the branch
\* is chosen and its subprocess (piper / ffmpeg) and feed task are started
SynthStart ==
    /\ genPc = "synth_start"
    /\ genPc' = "synth_read"
    /\ LET path == BackendPath(detected_lang, RawPcmArg) IN
         /\ running_procs' = running_procs + (IF SpawnsProcess(path) THEN 1 ELSE 0)
         /\ feed_tasks' = feed_tasks + (IF HasFeedTask(path) THEN 1 ELSE 0)
    /\ UNCHANGED <<wav, response, timers, manager, san, edge_stream, segVars, upmix, subprocess, cfgVars, errVars, prodPc, cancelState, disconnected, sentence_queue,
                   pulled, cur, nchunks, outVars, enq>>

\* the backend delivers a chunk and the generator yields it
SynthChunk ==
    /\ genPc = "synth_read"
    /\ nchunks < MaxChunks
    /\ nchunks' = nchunks + 1
    /\ Yield(ChunkItems(BackendPath(detected_lang, RawPcmArg), cur, nchunks + 1))
    /\ UNCHANGED <<wav, response, timers, manager, san, edge_stream, segVars, upmix, subprocess, cfgVars, errVars, genPc, prodPc, cancelState, disconnected,
                   sentence_queue, pulled, cur, running_procs, feed_tasks, enq>>

\* end of the backend's output: await feed_task; await process.wait();
\* sentence_queue.task_done()
SynthFinish ==
    /\ genPc = "synth_read"
    /\ genPc' = "get"
    /\ LET path == BackendPath(detected_lang, RawPcmArg) IN
         /\ running_procs' = running_procs - (IF SpawnsProcess(path) THEN 1 ELSE 0)
         /\ feed_tasks' = feed_tasks - (IF HasFeedTask(path) THEN 1 ELSE 0)
    /\ Yield(FinishItems(BackendPath(detected_lang, RawPcmArg), cur, nchunks))
    /\ cur' = 0
    /\ nchunks' = 0
    /\ UNCHANGED <<wav, response, timers, manager, san, edge_stream, segVars, upmix, subprocess, cfgVars, errVars, prodPc, cancelState, disconnected, sentence_queue,
                   pulled, enq>>

\* The backend raises an Exception: the subprocess cannot be started (at
\* synth_start) or a read or the conversion fails mid-stream (at synth_read;
\* gTTS fetches the whole audio before its first chunk).  A branch that
\* catches it goes on with its fallback or, having none, ends the sentence
\* with what was yielded; nothing waits for the subprocess or the feed task.
\* An exception no branch catches leaves "async for audio_chunk" and takes the
\* generator to its finally clause.
BackendFail ==
    /\ genPc \in {"synth_start", "synth_read"}
    /\ LET path == BackendPath(detected_lang, RawPcmArg) IN
         /\ path = "gtts" => nchunks = 0
         /\ IF ~Catches(path)
            THEN /\ escaped' = TRUE
                 /\ genPc' = "finally"
                 /\ UNCHANGED <<cur, nchunks>>
            ELSE IF FallbackOf(path) = "none"
            THEN /\ genPc' = "get"
                 /\ cur' = 0
                 /\ nchunks' = 0
                 /\ UNCHANGED escaped
            ELSE /\ genPc' = "fallback_read"
                 /\ UNCHANGED <<cur, nchunks, escaped>>
    /\ UNCHANGED <<wav, response, timers, manager, san, edge_stream, segVars, upmix, subprocess, cfgVars, prodPc, cancelState, disconnected, sentence_queue,
                   pulled, running_procs, feed_tasks, outVars, enq,
                   source_raised, propagated>>

\* the fallback delivers a chunk and the generator yields it
FallbackChunk ==
    /\ genPc = "fallback_read"
    /\ nchunks < MaxChunks
    /\ nchunks' = nchunks + 1
    /\ Yield(FallbackItems(BackendPath(detected_lang, RawPcmArg), cur, nchunks + 1))
    /\ UNCHANGED <<wav, response, timers, manager, san, edge_stream, segVars, upmix, subprocess, cfgVars, errVars, genPc, prodPc, cancelState, disconnected,
                   sentence_queue, pulled, cur, running_procs, feed_tasks, enq>>

\* the fallback is exhausted, or fails in its turn (its own except clause
\* only logs): sentence_queue.task_done()
FallbackFinish ==
    /\ genPc = "fallback_read"
    /\ genPc' = "get"
    /\ cur' = 0
    /\ nchunks' = 0
    /\ UNCHANGED <<wav, response, timers, manager, san, edge_stream, segVars, upmix, subprocess, cfgVars, errVars, prodPc, cancelState, disconnected,
                   sentence_queue, pulled, running_procs, feed_tasks, outVars, enq>>

\* The transport goes away: the generator is closed (GeneratorExit at a yield,
\* CancelledError at an await).  Before the try block nothing is cleaned up;
\* inside it the finally clause runs.  The synthesis generators have no
\* finally clause and catch only Exception, so nothing is done about the
\* subprocess or the feed task.
Disconnect ==
    /\ genPc \in {"header", "warmup", "get", "synth_start", "synth_read", "fallback_read"}
    /\ disconnected' = TRUE
    /\ genPc' = IF genPc \in {"header", "warmup"} THEN "done" ELSE "finally"
    /\ UNCHANGED <<wav, response, timers, manager, san, edge_stream, segVars, upmix, subprocess, cfgVars, errVars, prodPc, cancelState, sentence_queue, pulled, cur,
                   nchunks, running_procs, feed_tasks, outVars, enq>>

\* finally: if not producer_task.done(): producer_task.cancel()
CancelProducer ==
    /\ genPc = "finally"
    /\ genPc' = "await_producer"
    /\ cancelState' = IF prodPc \in Terminal THEN cancelState ELSE "requested"
    /\ UNCHANGED <<wav, response, timers, manager, san, edge_stream, segVars, upmix, subprocess, cfgVars, errVars, prodPc, disconnected, sentence_queue, pulled, cur,
                   nchunks, running_procs, feed_tasks, outVars, enq>>

\* with suppress(asyncio.CancelledError): await producer_task.  The await
\* raises the exception the task ended with; only voice_stream wraps its
\* generator in "except Exception", the generators of voice_interaction and
\* voice_text_input let it pass
AwaitProducer ==
    /\ genPc = "await_producer"
    /\ prodPc \in Terminal
    /\ genPc' = "done"
    /\ IF prodPc = "done" /\ source_raised
       THEN \E outer_except \in BOOLEAN : propagated' = ~outer_except
       ELSE UNCHANGED propagated
    /\ UNCHANGED <<wav, response, timers, manager, san, edge_stream, segVars, upmix, subprocess, cfgVars, escaped, source_raised, prodPc, cancelState, disconnected, sentence_queue,
                   pulled, cur, nchunks, running_procs, feed_tasks, outVars, enq>>

\* ------------------------------------------------------------------------
\* sentence_producer task
\* ------------------------------------------------------------------------
\* async for sentence in generate_response(...): the next sentence arrives
ProducerPull ==
    /\ prodPc = "pull"
    /\ cancelState # "requested"
    /\ pulled < MaxSentences
    /\ pulled' = pulled + 1
    /\ prodPc' = "put"
    /\ UNCHANGED <<wav, response, timers, manager, san, edge_stream, segVars, upmix, subprocess, cfgVars, errVars, genPc, cancelState, disconnected, sentence_queue,
                   cur, nchunks, running_procs, feed_tasks, outVars, enq>>

\* generate_response is exhausted: the loop ends and the finally clause starts
SourceEnd ==
    /\ prodPc = "pull"
    /\ cancelState # "requested"
    /\ prodPc' = "finally"
    /\ UNCHANGED <<wav, response, timers, manager, san, edge_stream, segVars, upmix, subprocess, cfgVars, errVars, genPc, cancelState, disconnected, sentence_queue,
                   pulled, cur, nchunks, running_procs, feed_tasks, outVars, enq>>

\* generate_response raises an Exception: the loop is left and the finally
\* clause starts; the task will end with the exception
SourceFail ==
    /\ prodPc = "pull"
    /\ cancelState # "requested"
    /\ prodPc' = "finally"
    /\ source_raised' = TRUE
    /\ UNCHANGED <<wav, response, timers, manager, san, edge_stream, segVars, upmix, subprocess, cfgVars, escaped, propagated, genPc, cancelState, disconnected, sentence_queue,
                   pulled, cur, nchunks, running_procs, feed_tasks, outVars, enq>>

\* await sentence_queue.put(sentence): suspended while the queue is full
ProducerPut ==
    /\ prodPc = "put"
    /\ cancelState # "requested"
    /\ CanPut(sentence_queue)
    /\ sentence_queue' = QueuePut(sentence_queue, pulled)
    /\ enq' = Append(enq, pulled)
    /\ prodPc' = "pull"
    /\ UNCHANGED <<wav, response, timers, manager, san, edge_stream, segVars, upmix, subprocess, cfgVars, errVars, genPc, cancelState, disconnected, pulled, cur,
                   nchunks, running_procs, feed_tasks, outVars>>

\* finally: await sentence_queue.put(stop_token); the task then finishes
ProducerPutStop ==
    /\ prodPc = "finally"
    /\ cancelState # "requested"
    /\ CanPut(sentence_queue)
    /\ sentence_queue' = QueuePut(sentence_queue, stop_token)
    /\ enq' = Append(enq, stop_token)
    /\ prodPc' = IF cancelState = "delivered" THEN "cancelled" ELSE "done"
    /\ UNCHANGED <<wav, response, timers, manager, san, edge_stream, segVars, upmix, subprocess, cfgVars, errVars, genPc, cancelState, disconnected, pulled, cur,
                   nchunks, running_procs, feed_tasks, outVars>>

\* CancelledError is raised at the await the task is suspended on.  In the
\* try body it sends the task into its finally clause, whose put() is a new
\* await that nothing cancels; in the finally clause it ends the task.
ProducerCancelled ==
    /\ cancelState = "requested"
    /\ cancelState' = "delivered"
    /\ prodPc' = IF prodPc = "finally" THEN "cancelled" ELSE "finally"
    /\ UNCHANGED <<wav, response, timers, manager, san, edge_stream, segVars, upmix, subprocess, cfgVars, errVars, genPc, disconnected, sentence_queue, pulled, cur,
                   nchunks, running_procs, feed_tasks, outVars, enq>>

ConsumerStep ==
    \/ YieldHeader
    \/ YieldWarmup
    \/ StartProducer
    \/ ConsumerGet
    \/ SynthStart
    \/ SynthChunk
    \/ SynthFinish
    \/ FallbackChunk
    \/ FallbackFinish
    \/ CancelProducer
    \/ AwaitProducer

ProducerStep ==
    \/ ProducerPull
    \/ SourceEnd
    \/ ProducerPut
    \/ ProducerPutStop
    \/ ProducerCancelled

Next ==
    \/ ConsumerStep
    \/ ProducerStep
    \/ BackendFail
    \/ Disconnect

Spec == Init /\ [][Next]_vars

\* The event loop runs every ready task; the client keeps reading and the
\* backend keeps producing unless the transport disconnects.
FairSpec == Spec /\ WF_vars(ConsumerStep) /\ WF_vars(ProducerStep)

\* The sessions in which generate_response may also raise
SourceFailNext ==
    \/ Next
    \/ SourceFail

SourceFailSpec == Init /\ [][SourceFailNext]_vars

\* ------------------------------------------------------------------------
\* StreamingLLM.generate_stream (text source and sentence segmenter)
\* ------------------------------------------------------------------------
\* one call of generate_stream on the instance built by __init__
SegInit ==
    /\ HdrOff
    /\ RespOff
    /\ TimerOff
    /\ SessOff
    /\ SanOff
    /\ EdgeOff
    /\ PipeOff
    /\ UpOff
    /\ ProcOff
    /\ sentence_buffer = << >>
    /\ \/ \E t \in Texts : \E d \in Splits(t, MaxDeltas) : input = OneCall(d)
       \/ input = OneCall(ScenarioDeltas)
    /\ ingested = [s \in LlmStreams |-> 0]
    /\ emitted = [s \in LlmStreams |-> << >>]
    /\ llmPc = [s \in LlmStreams |-> IF s = 1 THEN "idle" ELSE "off"]

\* text ingested so far by call s
Fed(s) == Concat(SubSeq(input[s], 1, ingested[s]))

\* self.sentence_buffer = "" at the start of the call
LlmStart(s) ==
    /\ llmPc[s] = "idle"
    /\ llmPc' = [llmPc EXCEPT ![s] = "streaming"]
    /\ sentence_buffer' = << >>
    /\ UNCHANGED <<wav, response, timers, manager, san, edge_stream, pipeVars, upmix, subprocess, input, ingested, emitted>>

\* a data line with content: self.sentence_buffer += content; the sentences
\* of _extract_sentences are cleaned and the non-empty ones yielded
LlmIngest(s) ==
    /\ llmPc[s] = "streaming"
    /\ ingested[s] < Len(input[s])
    /\ LET content == input[s][ingested[s] + 1]
           r == _extract_sentences(sentence_buffer \o content)
       IN /\ sentence_buffer' = r.buffer
          /\ emitted' = [emitted EXCEPT ![s] = @ \o CleanNonEmpty(r.sentences)]
    /\ ingested' = [ingested EXCEPT ![s] = @ + 1]
    /\ UNCHANGED <<wav, response, timers, manager, san, edge_stream, pipeVars, upmix, subprocess, input, llmPc>>

\* the line "data: [DONE]": the remaining buffer is yielded if it is not blank
LlmDone(s) ==
    /\ llmPc[s] = "streaming"
    /\ ingested[s] = Len(input[s])
    /\ LET clean_final == clean_text_for_tts(Strip(sentence_buffer)) IN
         emitted' = [emitted EXCEPT ![s] =
                        IF Strip(sentence_buffer) # << >> /\ clean_final # << >>
                        THEN Append(@, clean_final) ELSE @]
    /\ llmPc' = [llmPc EXCEPT ![s] = "flushed"]
    /\ UNCHANGED <<wav, response, timers, manager, san, edge_stream, pipeVars, upmix, subprocess, sentence_buffer, input, ingested>>

\* the response body ends without a [DONE] line: the async for loop is over
LlmEof(s) ==
    /\ llmPc[s] = "streaming"
    /\ ingested[s] = Len(input[s])
    /\ llmPc' = [llmPc EXCEPT ![s] = "eof"]
    /\ UNCHANGED <<wav, response, timers, manager, san, edge_stream, pipeVars, upmix, subprocess, sentence_buffer, input, ingested, emitted>>

\* yield "Response timed out."
TimeoutSentence ==
    <<"R", "e", "s", "p", "o", "n", "s", "e", " ", "t", "i", "m", "e", "d", " ",
      "o", "u", "t", ".">>

\* yield f"Error generating response: {str(e)}", the text of e left out
ErrorSentence ==
    <<"E", "r", "r", "o", "r", " ", "g", "e", "n", "e", "r", "a", "t", "i", "n", "g", " ",
      "r", "e", "s", "p", "o", "n", "s", "e", ":">>

\* the request times out (asyncio.TimeoutError) or the connection fails (any
\* other Exception) while the body is read: the except clause yields its
\* message and the generator ends; the buffer is not looked at
LlmFail(s) ==
    /\ llmPc[s] = "streaming"
    /\ \E msg \in {TimeoutSentence, ErrorSentence} :
          emitted' = [emitted EXCEPT ![s] = Append(@, msg)]
    /\ llmPc' = [llmPc EXCEPT ![s] = "failed"]
    /\ UNCHANGED <<wav, response, timers, manager, san, edge_stream, pipeVars, upmix, subprocess, sentence_buffer, input, ingested>>

SegNext ==
    \/ \E s \in LlmStreams : LlmStart(s)
    \/ \E s \in LlmStreams : LlmIngest(s)
    \/ \E s \in LlmStreams : LlmDone(s)
    \/ \E s \in LlmStreams : LlmEof(s)
    \/ \E s \in LlmStreams : LlmFail(s)

SegSpec == SegInit /\ [][SegNext]_vars

\* the responses of two requests served at the same time
SharedTexts == UNION {[1..n -> TextAlphabet] : n \in 0..MaxSharedLen}

\* two calls of generate_stream on the one instance llm, interleaved at their
\* await points (each line read from the response body is one)
SharedInit ==
    /\ HdrOff
    /\ RespOff
    /\ TimerOff
    /\ SessOff
    /\ SanOff
    /\ EdgeOff
    /\ PipeOff
    /\ UpOff
    /\ ProcOff
    /\ sentence_buffer = << >>
    /\ \E t1, t2 \in SharedTexts :
          \E d1 \in Splits(t1, MaxDeltas), d2 \in Splits(t2, MaxDeltas) :
             input = [s \in LlmStreams |-> IF s = 1 THEN d1 ELSE d2]
    /\ ingested = [s \in LlmStreams |-> 0]
    /\ emitted = [s \in LlmStreams |-> << >>]
    /\ llmPc = [s \in LlmStreams |-> "idle"]

SharedSpec == SharedInit /\ [][SegNext]_vars

\* ------------------------------------------------------------------------
\* Mono to stereo (HybridTTSService._mono_to_stereo and the English branch of
\* synthesize_stream_async)
\* ------------------------------------------------------------------------
\* byte values the streams are drawn from: with them a sample can be 0, -1,
\* 32767 (ff 7f) and -32768 (00 80)
ByteValues == {0, 127, 128, 255}

\* array.array('h', data): 16-bit signed samples, low byte first
S16(lo, hi) ==
    LET u == lo + 256 * hi IN IF u >= 32768 THEN u - 65536 ELSE u

Samples(data) == [i \in 1..(Len(data) \div 2) |-> S16(data[2 * i - 1], data[2 * i])]

\* array.tobytes()
ToBytes(samples) ==
    LET U(v) == (v + 65536) % 65536 IN
    [k \in 1..(2 * Len(samples)) |->
        IF k % 2 = 1 THEN U(samples[(k + 1) \div 2]) % 256
        ELSE U(samples[k \div 2]) \div 256]

\* each sample appended twice, left then right
Duplicate(samples) == [k \in 1..(2 * Len(samples)) |-> samples[(k + 1) \div 2]]

\* a conversion that keeps samples within -32767..32767
MonoToStereoClipped(mono_data) ==
    LET samples == Samples(mono_data) IN
    ToBytes([k \in 1..(2 * Len(samples)) |->
                IF samples[(k + 1) \div 2] < -32767 THEN -32767
                ELSE samples[(k + 1) \div 2]])
_mono_to_stereo(mono_data) == ToBytes(Duplicate(Samples(mono_data)))

\* process_size: chunk_size, one less if it is odd
ProcessSize == IF chunk_size % 2 = 0 THEN chunk_size ELSE chunk_size - 1

\* a loop that converts the whole samples of what one read left in the
\* buffer and keeps nothing
DrainPerRead(buf, chunks) ==
    IF Len(buf) >= 2
    THEN [buffer |-> << >>,
          chunks |-> Append(chunks, _mono_to_stereo(SubSeq(buf, 1, 2 * (Len(buf) \div 2))))]
    ELSE [buffer |-> << >>, chunks |-> chunks]

\* "while len(mono_buffer) >= chunk_size": convert and yield process_size
\* bytes at a time, keep the rest in the buffer
RECURSIVE DrainBuffer(_, _)
DrainBuffer(buf, chunks) ==
    IF Len(buf) >= chunk_size
    THEN DrainBuffer(SubSeq(buf, ProcessSize + 1, Len(buf)),
                     Append(chunks, _mono_to_stereo(SubSeq(buf, 1, ProcessSize))))
    ELSE [buffer |-> buf, chunks |-> chunks]

\* "Process remaining bytes": the whole samples left in the buffer
Remaining(buf) ==
    IF Len(buf) >= 2
    THEN << _mono_to_stereo(SubSeq(buf, 1, 2 * (Len(buf) \div 2))) >>
    ELSE << >>

\* one sentence is to be synthesized on the English branch
UpmixInit ==
    /\ HdrOff
    /\ RespOff
    /\ TimerOff
    /\ SessOff
    /\ SanOff
    /\ EdgeOff
    /\ PipeOff
    /\ SegOff
    /\ ProcOff
    /\ \E n \in 0..MaxMonoBytes : \E bytes \in [1..n -> ByteValues] :
          upmix = [mono_stream |-> bytes, mono_read |-> 0, mono_buffer |-> << >>,
                   stereo_out |-> << >>, upPc |-> "idle"]

\* raw_pcm: mono_buffer = bytearray()
UpmixStart ==
    /\ upmix.upPc = "idle"
    /\ upmix' = [upmix EXCEPT !.upPc = "reading", !.mono_buffer = << >>]
    /\ UNCHANGED <<wav, response, timers, manager, san, edge_stream, pipeVars, segVars, subprocess>>

\* a read of piper's stdout returns the next n bytes: mono_buffer.extend and
\* the while loop
UpmixRead ==
    /\ upmix.upPc = "reading"
    /\ \E n \in 1..(Len(upmix.mono_stream) - upmix.mono_read) :
          LET r == DrainBuffer(upmix.mono_buffer
                                 \o SubSeq(upmix.mono_stream, upmix.mono_read + 1,
                                           upmix.mono_read + n),
                               << >>)
          IN upmix' = [upmix EXCEPT !.mono_read = @ + n,
                                    !.mono_buffer = r.buffer,
                                    !.stereo_out = @ \o r.chunks]
    /\ UNCHANGED <<wav, response, timers, manager, san, edge_stream, pipeVars, segVars, subprocess>>

\* piper's output is exhausted: the remaining whole samples are converted
UpmixEnd ==
    /\ upmix.upPc = "reading"
    /\ upmix.mono_read = Len(upmix.mono_stream)
    /\ upmix' = [upmix EXCEPT !.stereo_out = @ \o Remaining(upmix.mono_buffer),
                              !.upPc = "done"]
    /\ UNCHANGED <<wav, response, timers, manager, san, edge_stream, pipeVars, segVars, subprocess>>

\* not raw_pcm: the whole output is collected and converted at once;
\* array.array('h', ...) raises ValueError on an odd number of bytes
UpmixAtOnce ==
    /\ upmix.upPc = "idle"
    /\ IF Len(upmix.mono_stream) % 2 = 0
       THEN upmix' = [upmix EXCEPT !.mono_read = Len(upmix.mono_stream),
                                   !.stereo_out = << _mono_to_stereo(upmix.mono_stream) >>,
                                   !.upPc = "whole"]
       ELSE upmix' = [upmix EXCEPT !.mono_read = Len(upmix.mono_stream),
                                   !.stereo_out = << >>,
                                   !.upPc = "error"]
    /\ UNCHANGED <<wav, response, timers, manager, san, edge_stream, pipeVars, segVars, subprocess>>

UpmixNext ==
    \/ UpmixStart
    \/ UpmixRead
    \/ UpmixEnd
    \/ UpmixAtOnce

UpmixSpec == UpmixInit /\ [][UpmixNext]_vars

\* ------------------------------------------------------------------------
\* Subprocess pipes (PiperTTS.synthesize_stream and
\* HybridTTSService._edge_tts_synthesize_stream)
\* ------------------------------------------------------------------------
Min(a, b) == IF a <= b THEN a ELSE b

\* the write buffer limit above which drain() waits, equal to the capacity of
\* a pipe as in asyncio on Linux (64 KiB both)
WriteHighWater == PipeCapacity

\* the longest input: more than the pipe and the write buffer hold together
MaxInputBytes == 2 * PipeCapacity + 2

\* the most output the child produces for one byte of input: audio is larger
\* than the text or the MP3 it comes from, and can exceed what a pipe holds
MaxOutPerByte == PipeCapacity + 1

\* piper is given the whole text, ffmpeg the MP3 stream of Edge TTS
ProcInit ==
    /\ HdrOff
    /\ RespOff
    /\ TimerOff
    /\ SessOff
    /\ SanOff
    /\ EdgeOff
    /\ PipeOff
    /\ SegOff
    /\ UpOff
    /\ \E kind \in {"piper", "ffmpeg"} : \E n \in 1..MaxInputBytes :
          subprocess = [proc_kind |-> kind, feedPc |-> "feed", readPc |-> "read",
                        to_feed |-> n, unsent |-> 0, stdin_pipe |-> 0,
                        stdin_closing |-> FALSE, child_pending |-> 0,
                        child_exited |-> FALSE, stdout_pipe |-> 0]

\* the read loop runs: for ffmpeg from the start, beside the feed_mp3 task;
\* for piper it follows stdin.write, drain and close in the same coroutine
ReaderScheduled == subprocess.proc_kind = "ffmpeg" \/ subprocess.feedPc = "done"

\* stdin.write(data): the whole text for piper, one MP3 chunk for ffmpeg; what
\* the pipe takes at once is written, the rest stays in the write buffer
FeedWrite ==
    /\ subprocess.feedPc = "feed"
    /\ subprocess.to_feed > 0
    /\ \E c \in 1..subprocess.to_feed :
          /\ IF subprocess.proc_kind = "piper"
             THEN c = subprocess.to_feed
             ELSE c <= MaxFeedChunk
          /\ LET n == IF subprocess.unsent = 0
                      THEN Min(c, PipeCapacity - subprocess.stdin_pipe)
                      ELSE 0
             IN subprocess' = [subprocess EXCEPT !.stdin_pipe = @ + n,
                                                 !.unsent = @ + (c - n),
                                                 !.to_feed = @ - c,
                                                 !.feedPc = "drain"]
    /\ UNCHANGED <<wav, response, timers, manager, san, edge_stream, pipeVars, segVars, upmix>>

\* the event loop writes buffered bytes when the pipe has room
TransportFlush ==
    /\ subprocess.unsent > 0
    /\ subprocess.stdin_pipe < PipeCapacity
    /\ LET n == Min(subprocess.unsent, PipeCapacity - subprocess.stdin_pipe)
       IN subprocess' = [subprocess EXCEPT !.stdin_pipe = @ + n,
                                           !.unsent = @ - n]
    /\ UNCHANGED <<wav, response, timers, manager, san, edge_stream, pipeVars, segVars, upmix>>

\* await stdin.drain() returns once the write buffer is within its limit
DrainReturn ==
    /\ subprocess.feedPc = "drain"
    /\ subprocess.unsent <= WriteHighWater
    /\ subprocess' = [subprocess EXCEPT
                        !.feedPc = IF subprocess.to_feed > 0 THEN "feed" ELSE "close"]
    /\ UNCHANGED <<wav, response, timers, manager, san, edge_stream, pipeVars, segVars, upmix>>

\* stdin.close(): the child sees the end of its input after the buffered bytes
StdinClose ==
    /\ subprocess.feedPc = "close"
    /\ subprocess' = [subprocess EXCEPT !.stdin_closing = TRUE, !.feedPc = "done"]
    /\ UNCHANGED <<wav, response, timers, manager, san, edge_stream, pipeVars, segVars, upmix>>

\* the child takes a byte of input and has some output to write for it; it
\* reads on only when that output is written
ChildRead ==
    /\ ~subprocess.child_exited
    /\ subprocess.child_pending = 0
    /\ subprocess.stdin_pipe > 0
    /\ \E out \in 0..MaxOutPerByte :
          subprocess' = [subprocess EXCEPT !.stdin_pipe = @ - 1,
                                           !.child_pending = out]
    /\ UNCHANGED <<wav, response, timers, manager, san, edge_stream, pipeVars, segVars, upmix>>

\* the child writes output while its stdout pipe has room
ChildWrite ==
    /\ subprocess.child_pending > 0
    /\ subprocess.stdout_pipe < PipeCapacity
    /\ subprocess' = [subprocess EXCEPT !.child_pending = @ - 1,
                                        !.stdout_pipe = @ + 1]
    /\ UNCHANGED <<wav, response, timers, manager, san, edge_stream, pipeVars, segVars, upmix>>

\* the child has seen the end of its input and written all its output
ChildExit ==
    /\ ~subprocess.child_exited
    /\ subprocess.stdin_closing
    /\ subprocess.unsent = 0
    /\ subprocess.stdin_pipe = 0
    /\ subprocess.child_pending = 0
    /\ subprocess' = [subprocess EXCEPT !.child_exited = TRUE]
    /\ UNCHANGED <<wav, response, timers, manager, san, edge_stream, pipeVars, segVars, upmix>>

\* await stdout.read(chunk_size) returns what the pipe holds
ReadStdout ==
    /\ subprocess.readPc = "read"
    /\ ReaderScheduled
    /\ subprocess.stdout_pipe > 0
    /\ subprocess' = [subprocess EXCEPT !.stdout_pipe = 0]
    /\ UNCHANGED <<wav, response, timers, manager, san, edge_stream, pipeVars, segVars, upmix>>

\* read returns b"": the loop breaks
ReadEof ==
    /\ subprocess.readPc = "read"
    /\ ReaderScheduled
    /\ subprocess.stdout_pipe = 0
    /\ subprocess.child_exited
    /\ subprocess' = [subprocess EXCEPT !.readPc = "wait"]
    /\ UNCHANGED <<wav, response, timers, manager, san, edge_stream, pipeVars, segVars, upmix>>

\* await feed_task (ffmpeg) and await process.wait()
ProcessWait ==
    /\ subprocess.readPc = "wait"
    /\ subprocess.feedPc = "done"
    /\ subprocess.child_exited
    /\ subprocess' = [subprocess EXCEPT !.readPc = "done"]
    /\ UNCHANGED <<wav, response, timers, manager, san, edge_stream, pipeVars, segVars, upmix>>

ProcNext ==
    \/ FeedWrite
    \/ TransportFlush
    \/ DrainReturn
    \/ StdinClose
    \/ ChildRead
    \/ ChildWrite
    \/ ChildExit
    \/ ReadStdout
    \/ ReadEof
    \/ ProcessWait

ProcSpec == ProcInit /\ [][ProcNext]_vars

\* ------------------------------------------------------------------------
\* One sentence through HybridTTSService._edge_tts_synthesize_stream, its
\* ffmpeg decoder and _edge_tts_fallback
\* ------------------------------------------------------------------------
\* Edge TTS delivers no audio for a blank text
EdgeInit ==
    /\ HdrOff
    /\ RespOff
    /\ TimerOff
    /\ SessOff
    /\ SanOff
    /\ PipeOff
    /\ SegOff
    /\ UpOff
    /\ ProcOff
    /\ \/ edge_stream = EdgeCall("spawn", TRUE, 0)
       \/ \E n \in 1..MaxMp3Chunks : edge_stream = EdgeCall("spawn", FALSE, n)

\* create_subprocess_exec('ffmpeg', ...); feed_task = create_task(feed_mp3())
EdgeSpawn ==
    /\ edge_stream.edgePc = "spawn"
    /\ edge_stream' = [edge_stream EXCEPT !.edgePc = "read",
                                          !.ffmpeg_state = "running",
                                          !.feed_state = "feeding"]
    /\ UNCHANGED <<wav, response, timers, manager, san, pipeVars, segVars, upmix, subprocess>>

\* feed_mp3: stdin.write(chunk["data"]); await stdin.drain().  ffmpeg decodes
\* the chunk; once ffmpeg has exited the write fails and feed_mp3's own
\* except clause logs and closes stdin
EdgeFeed ==
    /\ edge_stream.feed_state = "feeding"
    /\ edge_stream.mp3_left > 0
    /\ edge_stream' =
          IF edge_stream.ffmpeg_state = "running"
          THEN [edge_stream EXCEPT !.mp3_left = @ - 1, !.pcm_ready = @ + 1]
          ELSE [edge_stream EXCEPT !.feed_state = "error"]
    /\ UNCHANGED <<wav, response, timers, manager, san, pipeVars, segVars, upmix, subprocess>>

\* feed_mp3: the MP3 stream is exhausted: stdin.close()
EdgeFeedClose ==
    /\ edge_stream.feed_state = "feeding"
    /\ edge_stream.mp3_left = 0
    /\ edge_stream' = [edge_stream EXCEPT !.feed_state = "closed"]
    /\ UNCHANGED <<wav, response, timers, manager, san, pipeVars, segVars, upmix, subprocess>>

\* ffmpeg exits with a non-zero status in the middle of the sentence; what
\* it has written stays readable
FfmpegFail ==
    /\ edge_stream.ffmpeg_state = "running"
    /\ edge_stream' = [edge_stream EXCEPT !.ffmpeg_state = "failed"]
    /\ UNCHANGED <<wav, response, timers, manager, san, pipeVars, segVars, upmix, subprocess>>

\* ffmpeg has seen the end of its input and exits with status 0
FfmpegExit ==
    /\ edge_stream.ffmpeg_state = "running"
    /\ edge_stream.feed_state \in {"closed", "error"}
    /\ edge_stream' = [edge_stream EXCEPT !.ffmpeg_state = "ok"]
    /\ UNCHANGED <<wav, response, timers, manager, san, pipeVars, segVars, upmix, subprocess>>

\* pcm_chunk = await stdout.read(chunk_size); yield pcm_chunk
EdgeRead ==
    /\ edge_stream.edgePc = "read"
    /\ edge_stream.pcm_ready > 0
    /\ edge_stream' = [edge_stream EXCEPT !.pcm_ready = @ - 1,
                                          !.edge_yielded = @ + 1]
    /\ UNCHANGED <<wav, response, timers, manager, san, pipeVars, segVars, upmix, subprocess>>

\* read returns b"" once ffmpeg has exited, whatever its status: break
EdgeEof ==
    /\ edge_stream.edgePc = "read"
    /\ edge_stream.pcm_ready = 0
    /\ edge_stream.ffmpeg_state \in {"ok", "failed"}
    /\ edge_stream' = [edge_stream EXCEPT !.edgePc = "await_feed"]
    /\ UNCHANGED <<wav, response, timers, manager, san, pipeVars, segVars, upmix, subprocess>>

\* await feed_task
EdgeAwaitFeed ==
    /\ edge_stream.edgePc = "await_feed"
    /\ edge_stream.feed_state \in {"closed", "error"}
    /\ edge_stream' = [edge_stream EXCEPT !.edgePc = "wait"]
    /\ UNCHANGED <<wav, response, timers, manager, san, pipeVars, segVars, upmix, subprocess>>

\* await ffmpeg_process.wait(); logger.info(...): returncode is not read
EdgeWait ==
    /\ edge_stream.edgePc = "wait"
    /\ edge_stream' = [edge_stream EXCEPT !.edgePc = "done"]
    /\ UNCHANGED <<wav, response, timers, manager, san, pipeVars, segVars, upmix, subprocess>>

\* an Exception in the try block (ffmpeg cannot be started, a read fails):
\* "except Exception": the sentence goes to _edge_tts_fallback
EdgeExcept ==
    /\ edge_stream.edgePc \in {"spawn", "read"}
    /\ edge_stream' = [edge_stream EXCEPT !.edgePc = "fallback",
                                          !.edge_retried = TRUE]
    /\ UNCHANGED <<wav, response, timers, manager, san, pipeVars, segVars, upmix, subprocess>>

\* _edge_tts_fallback has collected the MP3 of the whole sentence and
\* converts it: with pydub, or with _convert_mp3_to_pcm_ffmpeg, which
\* returns without audio when ffmpeg's returncode is not 0; an Exception is
\* logged and ends the fallback
EdgeFallbackConvert ==
    /\ edge_stream.edgePc = "fallback"
    /\ \E converted \in BOOLEAN :
          edge_stream' = [edge_stream EXCEPT
                            !.edgePc = IF converted THEN "convert" ELSE "done"]
    /\ UNCHANGED <<wav, response, timers, manager, san, pipeVars, segVars, upmix, subprocess>>

\* the fallback yields the PCM of the whole sentence in chunks
EdgeFallbackYield ==
    /\ edge_stream.edgePc = "convert"
    /\ edge_stream.fb_yielded < MaxMp3Chunks
    /\ edge_stream' = [edge_stream EXCEPT !.fb_yielded = @ + 1]
    /\ UNCHANGED <<wav, response, timers, manager, san, pipeVars, segVars, upmix, subprocess>>

EdgeFallbackEnd ==
    /\ edge_stream.edgePc = "convert"
    /\ edge_stream.fb_yielded > 0
    /\ edge_stream' = [edge_stream EXCEPT !.edgePc = "done"]
    /\ UNCHANGED <<wav, response, timers, manager, san, pipeVars, segVars, upmix, subprocess>>

EdgeNext ==
    \/ EdgeSpawn
    \/ EdgeFeed
    \/ EdgeFeedClose
    \/ FfmpegFail
    \/ FfmpegExit
    \/ EdgeRead
    \/ EdgeEof
    \/ EdgeAwaitFeed
    \/ EdgeWait
    \/ EdgeExcept
    \/ EdgeFallbackConvert
    \/ EdgeFallbackYield
    \/ EdgeFallbackEnd

EdgeSpec == EdgeInit /\ [][EdgeNext]_vars

\* ------------------------------------------------------------------------
\* clean_text_for_tts applied to a text and to its own result
\* ------------------------------------------------------------------------
\* the markup characters, a letter and whitespace
MarkupAlphabet == {"a", "*", "_", Backquote, "[", "]", "(", ")", "#", "-", ">", " "}

\* the characters of each family of rules, for the longer texts
MarkupFamilies ==
    { {"a", "*", "_", " "},
      {"a", Backquote, "#", " "},
      {"a", "[", "]", "(", ")"} }

SanInit ==
    /\ HdrOff
    /\ RespOff
    /\ TimerOff
    /\ SessOff
    /\ PipeOff
    /\ SegOff
    /\ UpOff
    /\ ProcOff
    /\ EdgeOff
    /\ \/ \E n \in 0..MaxSanShort : \E x \in [1..n -> MarkupAlphabet] :
             san = Unsanitized("idle", x)
       \/ \E A \in MarkupFamilies :
             \E n \in 0..MaxSanLen : \E x \in [1..n -> A] :
                san = Unsanitized("idle", x)

\* clean_text_for_tts(text)
Sanitize ==
    /\ san.pc = "idle"
    /\ san' = [san EXCEPT !.once = clean_text_for_tts(san.text), !.pc = "once"]
    /\ UNCHANGED <<wav, response, timers, manager, pipeVars, segVars, upmix, subprocess, edge_stream>>

\* clean_text_for_tts applied to the result
SanitizeAgain ==
    /\ san.pc = "once"
    /\ san' = [san EXCEPT !.twice = clean_text_for_tts(san.once), !.pc = "twice"]
    /\ UNCHANGED <<wav, response, timers, manager, pipeVars, segVars, upmix, subprocess, edge_stream>>

SanNext ==
    \/ Sanitize
    \/ SanitizeAgain

SanSpec == SanInit /\ [][SanNext]_vars

\* ------------------------------------------------------------------------
\* Session and SessionManager
\* ------------------------------------------------------------------------
\* Session.is_expired: (datetime.now() - self.last_activity).seconds > timeout_seconds
is_expired(last_activity, timeout_seconds) ==
    ((manager.now - last_activity) % SecondsPerDay) > timeout_seconds

\* the registry with session sid created or touched at the present time
WithActivity(sid) ==
    [s \in DOMAIN manager.sessions \cup {sid} |->
        IF s = sid THEN manager.now ELSE manager.sessions[s]]

\* the registry without the sessions of D
Without(D) == [s \in DOMAIN manager.sessions \ D |-> manager.sessions[s]]

\* SessionManager.get_session returns the session
Returned(sid) ==
    /\ sid \in DOMAIN manager.sessions
    /\ ~is_expired(manager.sessions[sid], timeout)

SessInit ==
    /\ HdrOff
    /\ RespOff
    /\ TimerOff
    /\ PipeOff
    /\ SegOff
    /\ UpOff
    /\ ProcOff
    /\ EdgeOff
    /\ SanOff
    /\ SessOff

\* SessionManager.get_session(session_id)
GetSession(sid) ==
    /\ manager.session = NoSession
    /\ manager' =
          IF Returned(sid)
          THEN [manager EXCEPT
                  !.session = [sid |-> sid,
                               idle |-> manager.now - manager.sessions[sid],
                               from_get |-> TRUE]]
          ELSE [manager EXCEPT !.session = NoSession,
                               !.sessions = Without({sid})]
    /\ UNCHANGED <<wav, response, timers, pipeVars, segVars, upmix, subprocess, edge_stream, san>>

\* SessionManager.get_or_create_session(session_id)
GetOrCreateSession(sid) ==
    /\ manager.session = NoSession
    /\ manager' =
          IF Returned(sid)
          THEN [manager EXCEPT
                  !.session = [sid |-> sid,
                               idle |-> manager.now - manager.sessions[sid],
                               from_get |-> TRUE]]
          ELSE [manager EXCEPT
                  !.session = [sid |-> sid, idle |-> 0, from_get |-> FALSE],
                  !.sessions = WithActivity(sid)]
    /\ UNCHANGED <<wav, response, timers, pipeVars, segVars, upmix, subprocess, edge_stream, san>>

\* Session.add_turn on the session of the request, which then ends
AddTurn ==
    /\ manager.session # NoSession
    /\ manager' = [manager EXCEPT !.sessions = WithActivity(manager.session.sid),
                                  !.session = NoSession]
    /\ UNCHANGED <<wav, response, timers, pipeVars, segVars, upmix, subprocess, edge_stream, san>>

\* SessionManager.cleanup_expired
CleanupExpired ==
    /\ manager' =
          [manager EXCEPT
             !.sessions = Without({s \in DOMAIN manager.sessions :
                                      is_expired(manager.sessions[s], timeout)}),
             !.cleaned = TRUE]
    /\ UNCHANGED <<wav, response, timers, pipeVars, segVars, upmix, subprocess, edge_stream, san>>

\* time passes between two requests
ClockTick ==
    /\ manager.now + ClockStep <= MaxTicks * ClockStep
    /\ manager' = [manager EXCEPT !.now = @ + ClockStep,
                                  !.session = NoSession,
                                  !.cleaned = FALSE]
    /\ UNCHANGED <<wav, response, timers, pipeVars, segVars, upmix, subprocess, edge_stream, san>>

SessNext ==
    \/ \E sid \in SessionIds : GetSession(sid)
    \/ \E sid \in SessionIds : GetOrCreateSession(sid)
    \/ AddTurn
    \/ CleanupExpired
    \/ ClockTick

SessSpec == SessInit /\ [][SessNext]_vars

\* ------------------------------------------------------------------------
\* SystemControl.set_timer, cancel_timer, list_timers and timer_callback
\* ------------------------------------------------------------------------
TimerIds == 1..MaxTimers

\* key in _active_timers
Active(t) ==
    \E i \in 1..Len(timers.active_timers) : timers.active_timers[i] = t

\* _active_timers.pop(t, None)
Popped(t) == SelectSeq(timers.active_timers, LAMBDA k : k # t)

\* the outcomes of a call that are an exception leaving it
Raised == {"KeyError", "IndexError", "RuntimeError"}

TimerInit ==
    /\ HdrOff
    /\ RespOff
    /\ PipeOff
    /\ SegOff
    /\ UpOff
    /\ ProcOff
    /\ EdgeOff
    /\ SanOff
    /\ SessOff
    /\ TimerOff

\* set_timer: _timer_counter += 1; timer = threading.Timer(...); timer.start()
SetTimerStart ==
    /\ timers.srvPc = "idle"
    /\ timers.timer_counter < MaxTimers
    /\ timers' = [timers EXCEPT
                    !.timer_counter = @ + 1,
                    !.timer_id = timers.timer_counter + 1,
                    !.timer_state[timers.timer_counter + 1] = "waiting",
                    !.srvPc = "set_insert",
                    !.tool_result = "none"]
    /\ UNCHANGED <<wav, response, manager, pipeVars, segVars, upmix, subprocess, edge_stream, san>>

\* set_timer: _active_timers[timer_id] = {...}; return
SetTimerInsert ==
    /\ timers.srvPc = "set_insert"
    /\ timers' = [timers EXCEPT
                    !.active_timers = Append(Popped(timers.timer_id), timers.timer_id),
                    !.srvPc = "idle",
                    !.timer_id = 0,
                    !.tool_result = "success"]
    /\ UNCHANGED <<wav, response, manager, pipeVars, segVars, upmix, subprocess, edge_stream, san>>

\* the Timer thread wakes up and runs timer_callback up to its last line
TimerFire(t) ==
    /\ timers.timer_state[t] = "waiting"
    /\ timers' = [timers EXCEPT !.timer_state[t] = "running"]
    /\ UNCHANGED <<wav, response, manager, pipeVars, segVars, upmix, subprocess, edge_stream, san>>

\* timer_callback: _active_timers.pop(timer_id, None)
TimerCallbackPop(t) ==
    /\ timers.timer_state[t] = "running"
    /\ timers' = [timers EXCEPT
                    !.active_timers = Popped(t),
                    !.timer_state[t] = "finished"]
    /\ UNCHANGED <<wav, response, manager, pipeVars, segVars, upmix, subprocess, edge_stream, san>>

\* cancel_timer(timer_id): the tests of the if and of the elif
\* (t = 0 stands for timer_id = None)
CancelTest(t) ==
    /\ timers.srvPc = "idle"
    /\ timers.timer_counter > 0
    /\ timers' =
          IF t # 0 /\ Active(t)
          THEN [timers EXCEPT !.srvPc = "cancel_index", !.timer_id = t,
                              !.tool_result = "none"]
          ELSE IF t = 0 /\ timers.active_timers # << >>
          THEN [timers EXCEPT !.srvPc = "cancel_keys", !.timer_id = 0,
                              !.tool_result = "none"]
          ELSE [timers EXCEPT !.srvPc = "idle", !.timer_id = 0,
                              !.tool_result = "no_active_timers"]
    /\ UNCHANGED <<wav, response, manager, pipeVars, segVars, upmix, subprocess, edge_stream, san>>

\* cancel_timer: timer_id = list(_active_timers.keys())[-1]
CancelKeys ==
    /\ timers.srvPc = "cancel_keys"
    /\ timers' =
          IF timers.active_timers = << >>
          THEN [timers EXCEPT !.srvPc = "idle", !.timer_id = 0,
                              !.tool_result = "IndexError"]
          ELSE [timers EXCEPT !.srvPc = "cancel_index",
                              !.timer_id = Last(timers.active_timers),
                              !.tool_result = "none"]
    /\ UNCHANGED <<wav, response, manager, pipeVars, segVars, upmix, subprocess, edge_stream, san>>

\* cancel_timer: _active_timers[timer_id]["timer"].cancel()
CancelIndex ==
    /\ timers.srvPc = "cancel_index"
    /\ timers' =
          IF Active(timers.timer_id)
          THEN [timers EXCEPT
                  !.srvPc = "cancel_pop",
                  !.timer_state[timers.timer_id] =
                      IF @ = "waiting" THEN "cancelled" ELSE @]
          ELSE [timers EXCEPT !.srvPc = "idle", !.timer_id = 0,
                              !.tool_result = "KeyError"]
    /\ UNCHANGED <<wav, response, manager, pipeVars, segVars, upmix, subprocess, edge_stream, san>>

\* cancel_timer: name = _active_timers.pop(timer_id)["name"]; return
CancelPop ==
    /\ timers.srvPc = "cancel_pop"
    /\ timers' =
          IF Active(timers.timer_id)
          THEN [timers EXCEPT !.active_timers = Popped(timers.timer_id),
                              !.tool_result = "success",
                              !.srvPc = "idle", !.timer_id = 0]
          ELSE [timers EXCEPT !.tool_result = "KeyError",
                              !.srvPc = "idle", !.timer_id = 0]
    /\ UNCHANGED <<wav, response, manager, pipeVars, segVars, upmix, subprocess, edge_stream, san>>

\* list_timers: the test for an empty registry and the start of the for loop
ListStart ==
    /\ timers.srvPc = "idle"
    /\ timers.timer_counter > 0
    /\ timers' =
          IF timers.active_timers = << >>
          THEN [timers EXCEPT !.srvPc = "idle", !.tool_result = "success"]
          ELSE [timers EXCEPT !.srvPc = "list_iter", !.tool_result = "none",
                              !.iter_size = Len(timers.active_timers),
                              !.iter_pos = 0]
    /\ UNCHANGED <<wav, response, manager, pipeVars, segVars, upmix, subprocess, edge_stream, san>>

\* list_timers: one step of the dict iterator, which raises RuntimeError if
\* the size of the dict is no longer the size it had when the loop began
ListStep ==
    /\ timers.srvPc = "list_iter"
    /\ timers' =
          IF Len(timers.active_timers) # timers.iter_size
          THEN [timers EXCEPT !.srvPc = "idle", !.tool_result = "RuntimeError",
                              !.iter_size = 0, !.iter_pos = 0]
          ELSE IF timers.iter_pos = timers.iter_size
          THEN [timers EXCEPT !.srvPc = "idle", !.tool_result = "success",
                              !.iter_size = 0, !.iter_pos = 0]
          ELSE [timers EXCEPT !.srvPc = "list_iter", !.tool_result = "none",
                              !.iter_pos = @ + 1]
    /\ UNCHANGED <<wav, response, manager, pipeVars, segVars, upmix, subprocess, edge_stream, san>>

TimerNext ==
    \/ SetTimerStart
    \/ SetTimerInsert
    \/ \E t \in TimerIds : TimerFire(t)
    \/ \E t \in TimerIds : TimerCallbackPop(t)
    \/ \E t \in TimerIds \cup {0} : CancelTest(t)
    \/ CancelKeys
    \/ CancelIndex
    \/ CancelPop
    \/ ListStart
    \/ ListStep

TimerSpec == TimerInit /\ [][TimerNext]_vars

\* ------------------------------------------------------------------------
\* generate_response: the LLM call and its retry when the context is exceeded
\* ------------------------------------------------------------------------
\* the turn session.add_turn("user", user_query) appends
UserTurn == [role |-> "user", content |-> "query"]
\* the turn session.add_turn("assistant", ...) appends
AssistantTurn == [role |-> "assistant", content |-> "response"]
\* a turn of an earlier request
EarlierTurn == [role |-> "user", content |-> "earlier"]

Apology == "I reset our conversation to keep things fast. Please ask again."

RespInit ==
    /\ HdrOff
    /\ PipeOff
    /\ SegOff
    /\ UpOff
    /\ ProcOff
    /\ EdgeOff
    /\ SanOff
    /\ SessOff
    /\ TimerOff
    /\ \E n \in 0..MaxHistory :
          response = Request("loop", [i \in 1..n |-> EarlierTurn] \o <<UserTurn>>)

\* while attempt < max_attempts: messages = build_messages(); the call of
\* llm.generate_stream, whose stream has n sentences to give
LoopTest ==
    /\ response.respPc = "loop"
    /\ IF response.attempt < max_attempts
       THEN \E n \in 0..MaxLlmSentences :
               response' = [response EXCEPT !.respPc = "stream",
                                            !.llm_calls = @ + 1,
                                            !.stream_left = n]
       ELSE response' = [response EXCEPT !.respPc = "tools"]
    /\ UNCHANGED <<wav, timers, manager, pipeVars, segVars, upmix, subprocess, edge_stream, san>>

\* async for sentence in ...: full_response += sentence + " "; yield sentence
StreamSentence ==
    /\ response.respPc = "stream"
    /\ response.stream_left > 0
    /\ response' = [response EXCEPT
                      !.stream_left = @ - 1,
                      !.full_response = @ + 1,
                      !.response_yielded = Append(@, "sentence")]
    /\ UNCHANGED <<wav, timers, manager, pipeVars, segVars, upmix, subprocess, edge_stream, san>>

\* the stream is exhausted: break
StreamEnd ==
    /\ response.respPc = "stream"
    /\ response.stream_left = 0
    /\ response' = [response EXCEPT !.respPc = "tools"]
    /\ UNCHANGED <<wav, timers, manager, pipeVars, segVars, upmix, subprocess, edge_stream, san>>

\* the handler without its return: after the apology the while test is
\* evaluated again and the code after the loop runs
ContextExceededNoReturn ==
    /\ response.respPc = "stream"
    /\ response' = [response EXCEPT
                      !.attempt = @ + 1,
                      !.conversation_history = <<UserTurn>>,
                      !.full_response = 0,
                      !.stream_left = 0,
                      !.respPc = "loop",
                      !.response_yielded =
                          IF response.attempt + 1 >= max_attempts
                          THEN Append(@, Apology) ELSE @]
    /\ UNCHANGED <<wav, timers, manager, pipeVars, segVars, upmix, subprocess, edge_stream, san>>

\* except LLMContextExceededError: the stream raises at its next step
ContextExceeded ==
    /\ response.respPc = "stream"
    /\ response' = [response EXCEPT
                      !.attempt = @ + 1,
                      !.conversation_history = <<UserTurn>>,
                      !.full_response = 0,
                      !.stream_left = 0,
                      !.respPc =
                          IF response.attempt + 1 >= max_attempts
                          THEN "done" ELSE "loop",
                      !.response_yielded =
                          IF response.attempt + 1 >= max_attempts
                          THEN Append(@, Apology) ELSE @]
    /\ UNCHANGED <<wav, timers, manager, pipeVars, segVars, upmix, subprocess, edge_stream, san>>

\* after the loop: no tool call is found and the assistant turn is added,
\* or a tool is executed and the follow-up stream is started
AfterLoop ==
    /\ response.respPc = "tools"
    /\ \/ response' = [response EXCEPT
                          !.conversation_history = Append(@, AssistantTurn),
                          !.respPc = "done"]
       \/ \E n \in 0..MaxLlmSentences :
             response' = [response EXCEPT !.stream_left = n,
                                          !.respPc = "follow_up"]
    /\ UNCHANGED <<wav, timers, manager, pipeVars, segVars, upmix, subprocess, edge_stream, san>>

\* the follow-up stream: final_response += sentence + " "; yield sentence
FollowUpSentence ==
    /\ response.respPc = "follow_up"
    /\ response.stream_left > 0
    /\ response' = [response EXCEPT
                      !.stream_left = @ - 1,
                      !.response_yielded = Append(@, "sentence")]
    /\ UNCHANGED <<wav, timers, manager, pipeVars, segVars, upmix, subprocess, edge_stream, san>>

\* session.add_turn("assistant", final_response.strip()); return
FollowUpEnd ==
    /\ response.respPc = "follow_up"
    /\ response.stream_left = 0
    /\ response' = [response EXCEPT
                      !.conversation_history = Append(@, AssistantTurn),
                      !.respPc = "done"]
    /\ UNCHANGED <<wav, timers, manager, pipeVars, segVars, upmix, subprocess, edge_stream, san>>

\* the follow-up stream raises: nothing catches it in generate_response
FollowUpRaise ==
    /\ response.respPc = "follow_up"
    /\ response' = [response EXCEPT !.respPc = "raised", !.stream_left = 0]
    /\ UNCHANGED <<wav, timers, manager, pipeVars, segVars, upmix, subprocess, edge_stream, san>>

RespNext ==
    \/ LoopTest
    \/ StreamSentence
    \/ StreamEnd
    \/ ContextExceeded
    \/ AfterLoop
    \/ FollowUpSentence
    \/ FollowUpEnd
    \/ FollowUpRaise

RespSpec == RespInit /\ [][RespNext]_vars

\* every stream is consumed by the event loop until it ends or raises
FairRespSpec == RespSpec /\ WF_vars(RespNext)

\* ------------------------------------------------------------------------
\* The WAV headers: the streaming endpoints and _create_wav_header
\* ------------------------------------------------------------------------
\* the value of a Python int below 2^31
FromInt(n) == U32(n \div 65536, n % 65536)

\* v + n and v - n modulo 2^32, for 0 <= n < 65536
Plus(v, n) ==
    LET t == v.lo + n
    IN  U32((v.hi + t \div 65536) % 65536, t % 65536)

Minus(v, n) ==
    LET t == v.lo - n
    IN  IF t >= 0 THEN U32(v.hi, t) ELSE U32((v.hi + 65535) % 65536, t + 65536)

\* struct.pack('<H', n) and struct.pack('<I', v): little-endian bytes
Pack16(n) == <<n % 256, n \div 256>>
Pack32(v) == Pack16(v.lo) \o Pack16(v.hi)

\* struct.unpack_from('<H', b, i - 1) and struct.unpack_from('<I', b, i - 1)
Unpack16(b, i) == b[i] + 256 * b[i + 1]
Unpack32(b, i) == U32(Unpack16(b, i + 2), Unpack16(b, i))

\* b'RIFF', b'WAVE', b'fmt ', b'data'
RiffTag == <<82, 73, 70, 70>>
WaveTag == <<87, 65, 86, 69>>
FmtTag == <<102, 109, 116, 32>>
DataTag == <<100, 97, 116, 97>>

\* the three struct.pack calls that build a header
WavHeader(riff_size, channels, rate, bits, data_size) ==
    LET byte_rate == (rate * channels * bits) \div 8
        block_align == (channels * bits) \div 8
    IN  RiffTag \o Pack32(riff_size) \o WaveTag
        \o FmtTag \o Pack32(FromInt(16)) \o Pack16(1) \o Pack16(channels)
        \o Pack32(FromInt(rate)) \o Pack32(FromInt(byte_rate))
        \o Pack16(block_align) \o Pack16(bits)
        \o DataTag \o Pack32(data_size)

\* 0x7FFFFFFF and 0xFFFFFFFF
MaxInt32 == U32(32767, 65535)
MaxUint32 == U32(65535, 65535)

Endpoints == {"voice_interaction", "voice_text_input", "voice_stream"}

\* the size an endpoint writes into the data chunk
Placeholder(e) == IF e = "voice_stream" THEN MaxUint32 ELSE MaxInt32

\* the header an endpoint yields first
StreamingHeader(e) ==
    WavHeader(Minus(Placeholder(e), 8), num_channels, sample_rate,
              bits_per_sample, Placeholder(e))

\* HybridTTSService._create_wav_header
_create_wav_header(rate, channels, bits, data_size) ==
    WavHeader(Plus(FromInt(data_size), 36), channels, rate, bits, FromInt(data_size))

\* what a reader of the 44 bytes finds
Fields(b) ==
    [riff_size |-> Unpack32(b, 5), audio_format |-> Unpack16(b, 21),
     num_channels |-> Unpack16(b, 23), sample_rate |-> Unpack32(b, 25),
     byte_rate |-> Unpack32(b, 29), block_align |-> Unpack16(b, 33),
     bits_per_sample |-> Unpack16(b, 35), data_size |-> Unpack32(b, 41),
     tags |-> /\ SubSeq(b, 1, 4) = RiffTag
              /\ SubSeq(b, 9, 12) = WaveTag
              /\ SubSeq(b, 13, 16) = FmtTag
              /\ SubSeq(b, 37, 40) = DataTag]

HdrInit ==
    /\ PipeOff
    /\ SegOff
    /\ UpOff
    /\ ProcOff
    /\ EdgeOff
    /\ SanOff
    /\ SessOff
    /\ TimerOff
    /\ RespOff
    /\ wav = NoHeader("idle")

\* audio_stream_generator of endpoint e: yield header
YieldStreamingHeader(e) ==
    /\ wav.hdrPc = "idle"
    /\ wav' = [wav EXCEPT !.header = StreamingHeader(e),
                          !.header_by = e,
                          !.hdrPc = "yielded"]
    /\ UNCHANGED <<response, timers, manager, pipeVars, segVars, upmix, subprocess, edge_stream, san>>

\* the synthesis of a whole utterance: yield wav_header, for frames stereo frames
YieldWavHeader(frames) ==
    /\ wav.hdrPc = "idle"
    /\ wav' = [wav EXCEPT
                 !.header = _create_wav_header(
                                sample_rate, num_channels, bits_per_sample,
                                frames * ((num_channels * bits_per_sample) \div 8)),
                 !.header_by = "_create_wav_header",
                 !.hdrPc = "yielded"]
    /\ UNCHANGED <<response, timers, manager, pipeVars, segVars, upmix, subprocess, edge_stream, san>>

\* the client reads the header
ReadHeader ==
    /\ wav.hdrPc = "yielded"
    /\ Len(wav.header) >= 44
    /\ wav' = [wav EXCEPT !.declared = Fields(wav.header), !.hdrPc = "parsed"]
    /\ UNCHANGED <<response, timers, manager, pipeVars, segVars, upmix, subprocess, edge_stream, san>>

HdrNext ==
    \/ \E e \in Endpoints : YieldStreamingHeader(e)
    \/ \E frames \in 0..MaxFrames : YieldWavHeader(frames)
    \/ ReadHeader

HdrSpec == HdrInit /\ [][HdrNext]_vars

\* ========================================================================
\* Properties of the streaming session
\* ========================================================================
StopCount == Cardinality({i \in 1..Len(enq) : enq[i] = stop_token})
SentencesEnqueued == Cardinality({i \in 1..Len(enq) : enq[i] # stop_token})

\* C1: in a streaming session the WAV header is yielded exactly once, as the
\* very first item, before the warm-up silence and before every audio chunk;
\* no sentence, whatever branch synthesizes it, adds a second header.
C1_HeaderOnceFirst ==
    /\ out_headers <= 1
    /\ genPc # "start" => out_headers = 1
    /\ out_first \in {"none", "HDR"}

\* a finished session that delivered audio of a second sentence
C1_Witness ==
    /\ genPc = "done"
    /\ \E i \in 1..Len(out_recent) : out_recent[i].sent = 2

\* chunk a comes before chunk b in the order of sentences and, within a
\* sentence, of the backend's output
Before(a, b) ==
    \/ a.sent < b.sent
    \/ (a.sent = b.sent /\ a.idx < b.idx)

\* C2: audio chunks reach the output in sentence order, and the chunks of one
\* sentence in the order the backend produced them: every audio chunk yielded
\* comes, in that order, after the audio chunk yielded just before it (the
\* order is transitive, so this holds for every two chunks of the output).
C2_ChunksInOrder ==
    Len(out_recent) = 2 => Before(out_recent[1], out_recent[2])

\* the second chunk of one sentence directly followed by the first chunk of
\* a later one, delivered while the producer is ahead of the consumer
C2_Witness ==
    /\ Len(sentence_queue) >= 2
    /\ Len(out_recent) = 2
    /\ out_recent[1].idx = 2
    /\ out_recent[2].sent > out_recent[1].sent
    /\ out_recent[2].idx = 1

\* C3: the sentence queue (sentences plus the stop token) never holds more
\* than maxsize items.
C3_QueueBounded == Len(sentence_queue) <= QueueMaxsize

\* the queue is full and the producer is suspended on put() with one more
\* sentence
C3_Witness ==
    /\ Len(sentence_queue) = QueueMaxsize
    /\ prodPc = "put"

\* C4: after a disconnect the producer task is cancelled and runs to
\* completion and the generator's cleanup finishes: the session cannot come
\* to rest with the producer still pending.
C4_ProducerFinishes ==
    (disconnected /\ ~ENABLED Next) => (genPc = "done" /\ prodPc \in Terminal \cup {"none"})

\* C5: once the session is over, no subprocess spawned for it is left
\* un-waited and no feed task is left running.
C5_NoLeak ==
    genPc = "done" => (running_procs = 0 /\ feed_tasks = 0)

\* sentences the producer has pulled and not yet put on the queue
HeldByProducer == pulled - SentencesEnqueued

\* C6 as stated: while the queue holds its bound the producer pulls no
\* further sentence from the text source.
C6_NoPullWhileFull ==
    [][Len(sentence_queue) = QueueMaxsize => pulled' = pulled]_vars

\* C6 (amended): while the queue holds its bound nothing is put on it and the
\* producer pulls at most one further sentence, which it holds while it is
\* suspended on put(); unless the session is disconnected, the producer
\* eventually leaves put(), and it leaves it only by enqueueing the sentence
\* it holds or by being cancelled, so no sentence is dropped and never more
\* than one is held outside the queue.
C6_Backpressure ==
    /\ [][Len(sentence_queue) = QueueMaxsize => enq' = enq]_vars
    /\ [](HeldByProducer \in {0, 1})
    /\ [](cancelState = "none" => (HeldByProducer = 1 <=> prodPc = "put"))
    /\ [][(prodPc = "put" /\ prodPc' # "put")
            => (enq' = Append(enq, pulled) \/ cancelState = "requested")]_vars
    /\ (prodPc = "put") ~> (prodPc = "pull" \/ disconnected)

\* the queue is full again after the consumer removed an item: the producer,
\* which held sentence maxsize + 1, has resumed and enqueued it
C6_Witness ==
    /\ ~disconnected
    /\ Len(sentence_queue) = QueueMaxsize
    /\ Len(enq) = QueueMaxsize + 1
    /\ Last(enq) = QueueMaxsize + 1

\* C7: when the text source has ended the producer puts the stop token on the
\* queue exactly once and as its last item; unless the session is
\* disconnected, the consumer eventually takes it and the generator finishes;
\* nothing is yielded after the stop token has been taken.
C7_Completion ==
    /\ [](StopCount <= 1)
    /\ [](StopCount = 1 => Last(enq) = stop_token)
    /\ []((genPc = "done" /\ ~disconnected) => (StopCount = 1 /\ sentence_queue = << >>))
    /\ [][(genPc \in {"finally", "await_producer", "done"}) => (outVars' = outVars)]_vars
    /\ (prodPc = "finally" /\ cancelState = "none") ~> (genPc = "done" \/ disconnected)

\* a session that ran to normal completion after delivering audio
C7_Witness ==
    /\ genPc = "done"
    /\ ~disconnected
    /\ prodPc = "done"
    /\ out_recent # << >>

\* C14: no exception of a backend escapes synthesis, whichever branch the
\* router takes and wherever the backend fails: after a failure the generator
\* is back at the queue for the next sentence, or yields what the fallback
\* of the branch delivers.
C14_NoExceptionEscapes ==
    /\ [](~escaped)
    /\ [][BackendFail => (genPc' \in {"get", "fallback_read"})]_vars

\* a sentence whose backend failed got its audio from the fallback, and the
\* chunk yielded next is the preferred backend's audio of a later sentence
C14_Witness ==
    /\ Len(out_recent) = 2
    /\ out_recent[1].by \in {"edge_fallback", "piper_sync"}
    /\ out_recent[2].by \in {"edge", "gtts"}
    /\ out_recent[2].sent > out_recent[1].sent

\* C15: when the preferred backend of the language fails, the sentence is
\* rendered by the default-language backend, English Piper.
C15_FallsBackToPiper ==
    genPc = "fallback_read" =>
        FallbackOf(BackendPath(detected_lang, RawPcmArg)) = "piper_sync"

\* C16: every audio chunk yielded into a streaming session is stereo 16-bit
\* PCM, the format the header declares, whatever the language and the branch.
C16_CanonicalFormat ==
    \A i \in 1..Len(out_recent) : out_recent[i].kind = "PCM"

\* ========================================================================
\* Properties of the mono to stereo conversion
\* ========================================================================
\* the whole 16-bit samples of a byte stream
WholeSamples(data) == SubSeq(data, 1, 2 * (Len(data) \div 2))

\* C17: upmixing a buffer of N mono 16-bit samples yields exactly 2N samples,
\* input sample i at the output positions 2i and 2i+1 (counted from 0), each
\* value copied unchanged over the whole signed 16-bit range.
C17_UpmixDuplicates ==
    upmix.upPc = "whole" =>
        LET src == Samples(upmix.mono_stream)
            dst == Samples(upmix.stereo_out[1])
        IN /\ Len(upmix.stereo_out[1]) = 2 * Len(upmix.mono_stream)
           /\ Len(dst) = 2 * Len(src)
           /\ \A i \in 1..Len(src) : dst[2 * i - 1] = src[i] /\ dst[2 * i] = src[i]

\* a buffer holding both ends of the 16-bit range has been upmixed
C17_Witness ==
    /\ upmix.upPc = "whole"
    /\ \E i, j \in 1..Len(Samples(upmix.mono_stream)) :
          /\ Samples(upmix.mono_stream)[i] = -32768
          /\ Samples(upmix.mono_stream)[j] = 32767

\* C18: however the mono PCM bytes of a sentence are split into reads, the
\* stereo chunks yielded by the streaming path concatenate to the upmix of
\* the whole buffer (of its whole samples) done at once.
C18_ChunkingInvariant ==
    upmix.upPc = "done" => Concat(upmix.stereo_out) = _mono_to_stereo(WholeSamples(upmix.mono_stream))

\* a stream of the longest length was converted in more than one chunk
C18_Witness ==
    /\ upmix.upPc = "done"
    /\ Len(upmix.mono_stream) = MaxMonoBytes
    /\ Len(upmix.stereo_out) >= 2

\* C19: every chunk yielded by the streaming path is a whole number of stereo
\* frames (4 bytes), and while the stream is read the bytes not yet
\* converted, a trailing odd byte included, are kept in mono_buffer in front
\* of the next read: what was yielded is the upmix of an even-length prefix
\* of the bytes read and the buffer is the rest of them.
C19_OddByteCarried ==
    /\ \A k \in 1..Len(upmix.stereo_out) : Len(upmix.stereo_out[k]) % 4 = 0
    /\ upmix.upPc = "reading" =>
          LET converted == upmix.mono_read - Len(upmix.mono_buffer) IN
          /\ converted % 2 = 0
          /\ Concat(upmix.stereo_out) = _mono_to_stereo(SubSeq(upmix.mono_stream, 1, converted))
          /\ upmix.mono_buffer = SubSeq(upmix.mono_stream, converted + 1, upmix.mono_read)

\* a chunk was yielded, an odd byte is held back and more bytes are to come
C19_Witness ==
    /\ upmix.upPc = "reading"
    /\ upmix.stereo_out # << >>
    /\ Len(upmix.mono_buffer) % 2 = 1
    /\ upmix.mono_read < Len(upmix.mono_stream)

\* ========================================================================
\* Properties of the subprocess pipes
\* ========================================================================
\* the writer waits in drain() for room that only the child can make
ParentBlockedWriting ==
    /\ subprocess.feedPc = "drain"
    /\ subprocess.unsent > WriteHighWater
    /\ subprocess.stdin_pipe = PipeCapacity

\* the child waits for room in its stdout pipe
ChildBlockedWriting ==
    subprocess.child_pending > 0 /\ subprocess.stdout_pipe = PipeCapacity

\* C20: for every subprocess the writing of its stdin and the reading of its
\* stdout are scheduled concurrently, so the parent is never blocked writing
\* input while the child is blocked writing output that nobody reads.
C20_NoPipeDeadlock ==
    (ParentBlockedWriting /\ ChildBlockedWriting) => ENABLED ReadStdout

\* ========================================================================
\* Properties of the Edge TTS decoder
\* ========================================================================
\* C21: when ffmpeg exits with a non-zero status in the middle of a sentence,
\* the failure is detected for that sentence: the sentence is retried once
\* (the fallback runs) or dropped (no audio of it is delivered).
C21_TranscodeFailureDetected ==
    (edge_stream.edgePc = "done" /\ edge_stream.ffmpeg_state = "failed") =>
        \/ edge_stream.edge_retried
        \/ edge_stream.edge_yielded + edge_stream.fb_yielded = 0

\* C27: the audio of a sentence appears at most once in the stream: chunks of
\* a sentence that the Edge TTS streaming path delivered are never followed
\* by chunks of the same sentence from the fallback path.
C27_RenderedOnce ==
    ~ /\ Len(out_recent) = 2
      /\ out_recent[1].sent = out_recent[2].sent
      /\ out_recent[1].by = "edge"
      /\ out_recent[2].by = "edge_fallback"

\* ========================================================================
\* Properties of the text sanitizer
\* ========================================================================
\* C22: clean_text_for_tts is idempotent: applied to its own result it
\* returns that result.
C22_Idempotent ==
    san.pc = "twice" => san.twice = san.once

\* C23: the sanitized text is never longer than the text given.
C23_NeverLonger ==
    /\ san.pc \in {"once", "twice"} => Len(san.once) <= Len(san.text)
    /\ san.pc = "twice" => Len(san.twice) <= Len(san.once)

\* a text that was rewritten and kept its length
C23_Witness ==
    /\ san.pc = "once"
    /\ san.once # san.text
    /\ Len(san.once) = Len(san.text)
    /\ Len(san.text) >= 3

\* C24: a blank text handed to the synthesis backend is skipped: it spawns
\* no subprocess and produces no audio.
C24_BlankTextSkipped ==
    edge_stream.edge_blank =>
        /\ edge_stream.ffmpeg_state = "none"
        /\ edge_stream.edge_yielded + edge_stream.fb_yielded = 0

\* C25: when the text source raises in the producer task, the sentences
\* already queued are synthesized and the generator finishes without the
\* exception leaving it, in each of the streaming endpoints.
C25_SourceFailureContained ==
    ~propagated

\* ========================================================================
\* Properties of the session registry
\* ========================================================================
Idle(sid) == manager.now - manager.sessions[sid]

\* C29: is_expired is true for every idle duration strictly greater than the
\* timeout, idle durations of one day or more included, so get_session never
\* returns and cleanup_expired never keeps a session idle longer than the
\* timeout.
C29_ExpiryByIdleTime ==
    /\ \A s \in DOMAIN manager.sessions :
          Idle(s) > timeout => is_expired(manager.sessions[s], timeout)
    /\ manager.session.from_get => manager.session.idle <= timeout
    /\ manager.cleaned => \A s \in DOMAIN manager.sessions : Idle(s) <= timeout

\* ========================================================================
\* Properties of the timer registry
\* ========================================================================
\* C28: cancel_timer and list_timers are safe against the timer callback that
\* removes the same entry on its own thread: under every interleaving no call
\* raises, cancel_timer ends in success or in 'No active timers', and
\* list_timers never fails because the registry changed during the iteration.
C28_TimerCallsNeverRaise == timers.tool_result \notin Raised

\* ========================================================================
\* Properties of the LLM retry loop
\* ========================================================================
Apologies ==
    Cardinality({i \in 1..Len(response.response_yielded) :
                    response.response_yielded[i] = Apology})

AssistantTurns ==
    Cardinality({i \in 1..Len(response.conversation_history) :
                    response.conversation_history[i].role = "assistant"})

\* the loop has given up or not, and what holds in each case
RetryBounded ==
    /\ response.attempt <= max_attempts
    /\ response.llm_calls <= max_attempts
    /\ response.attempt < max_attempts => Apologies = 0
    /\ response.attempt = max_attempts =>
          /\ response.respPc = "done"
          /\ Apologies = 1
          /\ Last(response.response_yielded) = Apology
          /\ AssistantTurns = 0

\* C30: the LLM call is attempted at most 2 times when the context is
\* exceeded; after each LLMContextExceededError the history is cleared and
\* holds exactly the current user query; after the second failure exactly one
\* apology is yielded, the generator ends and no assistant turn is added; the
\* retry loop always terminates.
C30_RetryLoop ==
    /\ []RetryBounded
    /\ [][response'.attempt # response.attempt
            => response'.conversation_history = <<UserTurn>>]_vars
    /\ [](response.attempt > 0 /\ response.respPc \in {"loop", "stream", "tools"}
             => response.conversation_history = <<UserTurn>>)
    /\ <>(response.respPc \in {"done", "raised"})

\* the second attempt failed after sentences had been yielded
C30_Witness ==
    /\ response.attempt = max_attempts
    /\ response.respPc = "done"
    /\ Len(response.response_yielded) >= 2
    /\ response.llm_calls = max_attempts

\* ========================================================================
\* Properties of the WAV headers
\* ========================================================================
\* the header is 44 bytes and declares 22050 Hz, 2 channels, 16 bits
DeclaresFormat ==
    /\ Len(wav.header) = 44
    /\ wav.declared.tags
    /\ wav.declared.audio_format = 1
    /\ wav.declared.sample_rate = FromInt(sample_rate)
    /\ wav.declared.num_channels = num_channels
    /\ wav.declared.bits_per_sample = bits_per_sample
    /\ wav.declared.byte_rate =
          FromInt((sample_rate * num_channels * bits_per_sample) \div 8)
    /\ wav.declared.block_align = (num_channels * bits_per_sample) \div 8

\* C26: the header of every streaming endpoint is 44 bytes and declares
\* 22050 Hz, 2 channels, 16 bits, byte_rate = sample_rate * channels * bits / 8
\* and block_align = channels * bits / 8; its data-size field is the maximum
\* of the unsigned 32-bit field and its RIFF size field is the data size + 36
\* modulo 2^32; the three endpoints emit the same header.
C26_StreamingHeader ==
    (wav.hdrPc = "parsed" /\ wav.header_by \in Endpoints) =>
        /\ DeclaresFormat
        /\ wav.declared.data_size = MaxUint32
        /\ wav.declared.riff_size = Plus(wav.declared.data_size, 36)
        /\ \A e \in Endpoints : wav.header = StreamingHeader(e)

\* ========================================================================
\* Properties of the sentence segmenter
\* ========================================================================
Started(s) == llmPc[s] \in {"streaming", "flushed", "eof"}

\* the characters that neither strip(), the whitespace collapse nor the
\* replacement of markdown symbols may touch
Significant(t) == SelectSeq(t, LAMBDA c : c \notin Whitespace \cup SpecialMarkdownChars)

\* the remainder not yet yielded: the buffer, which the [DONE] line flushes
Pending(s) == IF llmPc[s] = "flushed" THEN << >> ELSE sentence_buffer

HelloWorld == <<"H", "e", "l", "l", "o", " ", "w", "o", "r", "l", "d", ".">>
HowAreYou == <<"H", "o", "w", " ", "a", "r", "e", " ", "y", "o", "u", "?">>

\* C8: while deltas are ingested, the number of sentences emitted equals the
\* number of terminal-punctuation boundaries in the text ingested so far, so
\* several boundaries made available by one delta give several sentences.
C8_OneSentencePerBoundary ==
    \A s \in LlmStreams :
        llmPc[s] = "streaming" =>
            Len(emitted[s]) = Cardinality(SentenceEndings(Fed(s)))

\* C9 as stated: the emitted sentences followed by the flushed remainder
\* concatenate to exactly the concatenation of the deltas.
C9_ExactReconstruction ==
    \A s \in LlmStreams :
        llmPc[s] = "flushed" => Concat(emitted[s]) = Fed(s)

\* C9 (amended): the emitted sentences followed by the remainder (the buffer,
\* which the [DONE] line flushes) contain exactly the characters of the
\* ingested deltas other than whitespace and markdown symbols, in the same
\* order: nothing else is lost, duplicated or reordered.
C9_ReconstructionModuloWhitespace ==
    \A s \in LlmStreams :
        Started(s) =>
            Significant(Concat(emitted[s]) \o Pending(s)) = Significant(Fed(s))

\* a flushed stream that emitted at least two sentences and lost whitespace
C9_Witness ==
    /\ llmPc[1] = "flushed"
    /\ Len(emitted[1]) >= 2
    /\ Concat(emitted[1]) # Fed(1)

\* what a flush of the buffer yields (nothing if it is blank)
FinalText == clean_text_for_tts(Strip(sentence_buffer))

\* the text left in the buffer has been emitted as the last sentence
BufferFlushed(s) ==
    FinalText # << >> => (emitted[s] # << >> /\ Last(emitted[s]) = FinalText)

\* C11: when the text stream has ended, with or without the [DONE] line, the
\* text still held in the buffer has been emitted as the final sentence.
C11_FlushAtEnd ==
    \A s \in LlmStreams : llmPc[s] \in {"flushed", "eof"} => BufferFlushed(s)

\* C12: when the text source has failed or timed out mid-stream, the text
\* accumulated in the buffer has been flushed as the final sentence.
C12_FlushOnFailure ==
    \A s \in LlmStreams : llmPc[s] = "failed" => BufferFlushed(s)

IsPrefix(a, b) == Len(a) <= Len(b) /\ SubSeq(b, 1, Len(a)) = a

\* C13: two calls running concurrently share no mutable state: what a call
\* has emitted consists of the text of its own deltas only, none of it lost
\* to or taken from the other call.
C13_SessionsIsolated ==
    \A s \in LlmStreams :
        Started(s) => IsPrefix(Significant(Concat(emitted[s])), Significant(Fed(s)))

\* C10 as stated: "Hello world." is emitted right after delta 2 is ingested.
C10_EmitsAfterDelta2 ==
    (input[1] = ScenarioDeltas /\ llmPc[1] = "streaming" /\ ingested[1] = 2)
        => emitted[1] = <<HelloWorld>>

\* C10 (amended): for the deltas "Hello", " world.", " How are", " you?"
\* nothing is emitted until delta 3 is ingested, "Hello world." is emitted by
\* the ingestion of delta 3, and "How are you?" by the [DONE] flush after
\* delta 4: two sentences, in that order.
C10_Scenario ==
    input[1] = ScenarioDeltas =>
        /\ (ingested[1] <= 2 /\ llmPc[1] # "failed") => emitted[1] = << >>
        /\ (ingested[1] >= 3 /\ llmPc[1] = "streaming") => emitted[1] = <<HelloWorld>>
        /\ llmPc[1] = "flushed" => emitted[1] = <<HelloWorld, HowAreYou>>

\* the scenario has been streamed and flushed
C10_Witness ==
    /\ input[1] = ScenarioDeltas
    /\ llmPc[1] = "flushed"
    /\ Len(emitted[1]) = 2

====
